---- MODULE Spec2Model ----
(***************************************************************************)
(* Verification model of the investments calculator.                       *)
(*                                                                         *)
(*  - ComputeFIFO_Fast (Module2): the lot engine.  One step of the model   *)
(*    is one iteration of its "For i" loop over the Transactions sheet.    *)
(*  - SummarizeTaxByYearAndCategory (Module1): the tax aggregator.  One    *)
(*    step is one iteration of its read loop; a final step is the output   *)
(*    loop.                                                                *)
(*                                                                         *)
(* Money is counted in cents, so Round(x, 2) of the macros is rounding to  *)
(* a whole number of cents.  Values that the macros hold in a Double are   *)
(* exact fractions <<numerator, denominator>> here.                        *)
(***************************************************************************)
EXTENDS Integers, Sequences, FiniteSets, TLC

(***************************************************************************)
(* Bounds of the model.                                                    *)
(***************************************************************************)
MaxRows == 4
MaxQty == 3

(***************************************************************************)
(* Arithmetic of the macros.                                               *)
(***************************************************************************)
Abs(x) == IF x < 0 THEN -x ELSE x

Max(a, b) == IF a > b THEN a ELSE b

Min(a, b) == IF a < b THEN a ELSE b

RECURSIVE Gcd(_, _)
Gcd(a, b) == IF b = 0 THEN a ELSE Gcd(b, a % b)

\* A Double value, as the fraction f[1] / f[2] in lowest terms, f[2] > 0.
Frac(n, d) == LET g == Gcd(Abs(n), d) IN <<n \div g, d \div g>>

FracAdd(f, g) ==
    LET l == (f[2] \div Gcd(f[2], g[2])) * g[2]
    IN  Frac(f[1] * (l \div f[2]) + g[1] * (l \div g[2]), l)

FracScale(f, k) == Frac(f[1] * k, f[2])

\* VBA Round(x, 2) of an amount of x = f[1] / f[2] cents: the nearest whole
\* cent, a tie going to the even cent.
Round2(f) ==
    LET q == f[1] \div f[2]
        r == f[1] - q * f[2]
    IN  IF 2 * r < f[2] THEN q
        ELSE IF 2 * r > f[2] THEN q + 1
        ELSE IF q % 2 = 0 THEN q ELSE q + 1

(***************************************************************************)
(* State.                                                                  *)
(***************************************************************************)
VARIABLES
    data,         \* Transactions sheet rows read so far (A2:K, in sheet order)
    results,      \* results(i, 1), the value written to column K for row i
    dict,         \* ticker -> Collection of open lots Array(qty, costPerShare)
    totalShares,  \* procedure-level Double of ComputeFIFO_Fast
    tempLots,     \* procedure-level auto-instanced Collection
    takes,        \* history: per row, the lots the consumption loop drew from
    tax,          \* Tax sheet rows read so far, for each of two runs
    dictYear,     \* year -> category -> net P/L, for each of the two runs
    taxOut,       \* output rows H:R (with taxableStock, taxableETF), per run
    taxPc,        \* "read": in the read loop; "done": output written
    differIn,     \* category in which the sheets of the two runs may differ
    lossesCarriedForward, \* carried-forward CGT loss supplied by the caller
    taxWithheld,  \* tax already withheld at source on the interest of a year
    macro,        \* the macro that is run a second time: "fifo", "tax" or "none"
    run,          \* number of runs of the macro that have ended
    lotPc,        \* "loop": ComputeFIFO_Fast is in its loop; "ended": it has returned
    sheet,        \* rows of the sheet as the run that ended has read them
    colK,         \* column K of the Transactions sheet
    firstOut,     \* history: the output of the first run
    exitLots,     \* open Exit-Tax lots known to the deemed-disposal scheduler
    evalDate,     \* evaluation date of the last scheduler run
    marketValues, \* lot -> unit market value supplied by the caller (partial)
    applied,      \* deemed disposals applied so far
    report,       \* lines reported by the last scheduler run
    errors,       \* errors returned alongside the report of the last run
    schedRuns,    \* number of scheduler runs
    firstTotals,  \* history: the totals after the first scheduler run
    byType,       \* rows of the dashboard's by-type table: type and treatment
    holdings,         \* TaxPlanning: holdings list (ISINs)
    selectedPersonId, \* TaxPlanning: selected person, or Undefined
    selectedIsin,     \* TaxPlanning: selected asset, "" for none
    quantity,         \* TaxPlanning: quantity input (string)
    salePrice,        \* TaxPlanning: sale price input (string)
    whatIfResult,     \* TaxPlanning: result of the last query, or Null
    whatIfLoading,    \* TaxPlanning: a query is in flight
    whatIfError,      \* TaxPlanning: error message of the last query, or Null
    opportunities,    \* TaxPlanning: loss-harvesting opportunities
    whatIfPc,         \* handleCalculateWhatIf: "idle" or "awaiting" calculateWhatIf
    whatIfDone,       \* history: outcomes of the queries that have ended
    showForm,           \* Portfolio: the transaction form is open
    formLoading,        \* Portfolio: a save is in progress
    formError,          \* Portfolio: error message of the form, or Null
    formSuccess,        \* Portfolio: success message of the form, or Null
    editingTransaction, \* Portfolio: the transaction being edited, or Null
    formData,           \* Portfolio: the data entered in the form
    requests,           \* create and update requests sent to the backend
    ledger,             \* transactions stored by the backend
    transactions,       \* Portfolio: transactions list as last loaded
    closeTimers,        \* Portfolio: setTimeout callbacks not yet fired
    submitPc,           \* handleSubmitTransaction: "idle", "saving" or "reloading"
    submits,            \* history: number of calls of handleSubmitTransaction
    targetRange, \* sheet: rows of the target range, percent and current amount
    totalCurrentAmount, \* sheet: total current amount passed to every row's formula
    newInvestAmount, \* sheet: new investment passed to every row's formula
    allocation, \* sheet: value of the CalculateInvestment formula in each row
    lastCall,\* the last call of a worksheet function: name, arguments, result
    uploading, \* Upload: an upload is in progress
    clearing, \* Upload: clearAllData is in progress
    result, \* Upload: response of the last upload, or Null
    error, \* Upload: error message, or Null
    clearMessage, \* Upload: message of the last clear, or Null
    uploads, \* upload requests sent: the file of each
    inFlight, \* number of uploadPDF calls that have not settled
    lastFile, \* history: the file of the last handleFile call
    drops,\* history: number of handleFile calls
    tcMounted, \* TaxCalculator: the page has mounted
    tcTaxYear, \* TaxCalculator: taxYear
    tcLosses, \* TaxCalculator: lossesCarriedForward
    tcResult, \* TaxCalculator: result, or Null
    tcDisposals, \* TaxCalculator: deemedDisposals, the years-ahead they were fetched for
    tcLoading, \* TaxCalculator: loading
    tcError, \* TaxCalculator: error, or Null
    tcPending, \* calculate() calls awaiting their responses: taxYear and losses of each
    tcIssued,\* history: number of calculate() calls
    dMounted, \* Dashboard: the page has mounted
    dPersonId, \* Dashboard: selectedPersonId, or Undefined
    dHoldings, \* Dashboard: the person whose holdings, income and disposals are shown, or Null
    dTaxResult, \* Dashboard: taxResult, or Null
    dLoading, \* Dashboard: loading
    dError, \* Dashboard: error, or Null
    dPending, \* loadData calls not yet returned: person and the await each is at
    dIssued,\* history: number of loadData calls
    daysUntil, \* Dashboard deadlines: the day count last rendered
    timeRemaining,\* Dashboard deadlines: the text rendered for it, "" before the first render
    stMounted, \* Settings: the page has mounted
    persons, \* Settings: persons.length of the list on the page
    stLoading, \* Settings: loading
    stError, \* Settings: error, or Null
    showAddForm, \* Settings: showAddForm
    formName, \* Settings: formName
    stored, \* backend: number of persons stored
    getPending, \* number of getPersons requests not yet returned
    created, \* history: the createPerson requests, with is_primary and what became of each
    adds \* history: number of clicks on Add

lotVars == <<data, results, dict, totalShares, tempLots, takes>>

taxVars == <<tax, dictYear, taxOut, taxPc, differIn, lossesCarriedForward, taxWithheld>>

runVars == <<macro, run, lotPc, sheet, colK, firstOut>>

schedVars == <<exitLots, evalDate, marketValues, applied, report, errors,
               schedRuns, firstTotals>>

classVars == <<byType>>

whatIfVars == <<holdings, selectedPersonId, selectedIsin, quantity, salePrice,
                whatIfResult, whatIfLoading, whatIfError, opportunities,
                whatIfPc, whatIfDone>>

formVars == <<showForm, formLoading, formError, formSuccess,
              editingTransaction, formData, requests, ledger, transactions,
              closeTimers, submitPc, submits>>

calcVars == <<targetRange, totalCurrentAmount, newInvestAmount, allocation,
              lastCall>>

uploadVars == <<uploading, clearing, result, error, clearMessage, uploads,
                inFlight, lastFile, drops>>

taxCalcVars == <<tcMounted, tcTaxYear, tcLosses, tcResult, tcDisposals,
                 tcLoading, tcError, tcPending, tcIssued>>

dashVars == <<dMounted, dPersonId, dHoldings, dTaxResult, dLoading, dError,
              dPending, dIssued>>

timeVars == <<daysUntil, timeRemaining>>

settingsVars == <<stMounted, persons, stLoading, stError, showAddForm,
                  formName, stored, getPending, created, adds>>

pageVars == <<calcVars, uploadVars, taxCalcVars, dashVars, timeVars,
              settingsVars>>

calcVarsFrame == <<lotVars, taxVars, runVars, schedVars, classVars,
                   whatIfVars, formVars, uploadVars, taxCalcVars, dashVars,
                   timeVars, settingsVars>>

uploadVarsFrame == <<lotVars, taxVars, runVars, schedVars, classVars,
                     whatIfVars, formVars, calcVars, taxCalcVars, dashVars,
                     timeVars, settingsVars>>

taxCalcVarsFrame == <<lotVars, taxVars, runVars, schedVars, classVars,
                      whatIfVars, formVars, calcVars, uploadVars, dashVars,
                      timeVars, settingsVars>>

dashVarsFrame == <<lotVars, taxVars, runVars, schedVars, classVars,
                   whatIfVars, formVars, calcVars, uploadVars, taxCalcVars,
                   timeVars, settingsVars>>

timeVarsFrame == <<lotVars, taxVars, runVars, schedVars, classVars,
                   whatIfVars, formVars, calcVars, uploadVars, taxCalcVars,
                   dashVars, settingsVars>>

settingsVarsFrame == <<lotVars, taxVars, runVars, schedVars, classVars,
                       whatIfVars, formVars, calcVars, uploadVars,
                       taxCalcVars, dashVars, timeVars>>

appVars == <<schedVars, classVars, whatIfVars, formVars, pageVars>>

vars == <<lotVars, taxVars, runVars, appVars>>

(***************************************************************************)
(* ComputeFIFO_Fast.                                                       *)
(***************************************************************************)
\* One row of the sheet: column A (date, in days), C (type), D (ticker),
\* F (price), G (commission), H (total value), J (quantity).
Row(date, trType, ticker, qty, price, comm, totalVal) ==
    [date |-> date, trType |-> trType, ticker |-> ticker, qty |-> qty,
     price |-> price, comm |-> comm, totalVal |-> totalVal]

Blank == [kind |-> "blank", val |-> 0]

NotEnoughShares == [kind |-> "error", val |-> 0]

Num(v) == [kind |-> "num", val |-> v]

\* If Not dict.Exists(ticker) Then dict.Add ticker, New Collection
DictWith(d, ticker) ==
    IF ticker \in DOMAIN d THEN d ELSE d @@ (ticker :> <<>>)

CostPerShareNoFee(qty, price, comm) == <<price, 1>>

\* costPerShare of a BUY row.
CostPerShare(qty, price, comm) ==
    IF qty # 0 THEN FracAdd(<<price, 1>>, Frac(comm, qty)) ELSE <<price, 1>>

\* For j = 1 To lotList.Count: totalShares = totalShares + lotList(j)(0)
RECURSIVE SumShares(_, _)
SumShares(acc, lotList) ==
    IF lotList = <<>> THEN acc
    ELSE SumShares(acc + Head(lotList).qty, Tail(lotList))

\* (price - currentLot(1)) * n
LotPL(price, lot, n) ==
    FracScale(FracAdd(<<price, 1>>, <<-lot.cost[1], lot.cost[2]>>), n)

CurrentLotNewest(lotList) == lotList[Len(lotList)]

\* currentLot = lotList(1)
CurrentLot(lotList) == lotList[1]

\* lotList.Remove 1
RemoveFirst(lotList) == Tail(lotList)

\* The Do While loop of the SELL case.  coll is the Collection held by
\* dict(ticker): lotList refers to it until the partial branch rebinds
\* lotList to tempLots, after which remainingQty = 0 ends the loop.
RECURSIVE ConsumeLoop(_, _, _, _, _, _)
ConsumeLoop(coll, remainingQty, realizedPL, price, taken, tmp) ==
    IF ~(remainingQty > 0 /\ Len(coll) > 0)
    THEN [coll |-> coll, realizedPL |-> realizedPL, taken |-> taken, tmp |-> tmp]
    ELSE LET currentLot == CurrentLot(coll) IN
         IF currentLot.qty > remainingQty
         THEN [coll |-> coll,
               realizedPL |-> FracAdd(realizedPL, LotPL(price, currentLot, remainingQty)),
               taken |-> Append(taken, [row |-> currentLot.row, qty |-> remainingQty]),
               tmp |-> Append(tmp, [currentLot EXCEPT !.qty = @ - remainingQty])
                          \o SubSeq(coll, 2, Len(coll))]
         ELSE ConsumeLoop(RemoveFirst(coll), remainingQty - currentLot.qty,
                          FracAdd(realizedPL, LotPL(price, currentLot, currentLot.qty)),
                          price,
                          Append(taken, [row |-> currentLot.row, qty |-> currentLot.qty]),
                          tmp)

\* If totalShares + 0.000001 < Abs(qty)
Insufficient(shares, qty) == shares < Abs(qty)

InitLotVars ==
    /\ data = <<>>
    /\ results = <<>>
    /\ dict = <<>>
    /\ totalShares = 0
    /\ tempLots = <<>>
    /\ takes = <<>>

InitTaxVars ==
    /\ tax = <<<<>>, <<>>>>
    /\ dictYear = <<<<>>, <<>>>>
    /\ taxOut = <<<<>>, <<>>>>
    /\ taxPc = "read"

InitRunVars ==
    /\ macro = "none"
    /\ run = 0
    /\ lotPc = "loop"
    /\ sheet = <<>>
    /\ colK = <<>>
    /\ firstOut = <<>>

InitSchedVars ==
    /\ exitLots = <<>>
    /\ evalDate = [y |-> 0, m |-> 1, d |-> 1]
    /\ marketValues = <<>>
    /\ applied = <<>>
    /\ report = <<>>
    /\ errors = {}
    /\ schedRuns = 0
    /\ firstTotals = [deemed_disposal_gains |-> 0, tax |-> 0, pending |-> {}]

InitClassVars ==
    /\ byType = <<>>

Null == [kind |-> "null"]

Undefined == [kind |-> "undefined"]

Msg(text) == [kind |-> "message", text |-> text]

\* useState initial values of TaxPlanning
InitWhatIfVars ==
    /\ holdings = <<>>
    /\ selectedPersonId = Undefined
    /\ selectedIsin = ""
    /\ quantity = ""
    /\ salePrice = ""
    /\ whatIfResult = Null
    /\ whatIfLoading = FALSE
    /\ whatIfError = Null
    /\ opportunities = <<>>
    /\ whatIfPc = "idle"
    /\ whatIfDone = {}

\* formData after resetForm and on first render
EmptyForm ==
    [isin |-> "", name |-> "", transaction_type |-> "buy",
     transaction_date |-> "today", quantity |-> 0, unit_price |-> 0,
     fees |-> 0, notes |-> ""]

\* useState initial values of Portfolio
InitFormVars ==
    /\ showForm = FALSE
    /\ formLoading = FALSE
    /\ formError = Null
    /\ formSuccess = Null
    /\ editingTransaction = Null
    /\ formData = EmptyForm
    /\ requests = <<>>
    /\ ledger = <<>>
    /\ transactions = <<>>
    /\ closeTimers = 0
    /\ submitPc = "idle"
    /\ submits = 0

InitCalcVars ==
    /\ targetRange = <<>>
    /\ totalCurrentAmount = 0
    /\ newInvestAmount = 0
    /\ allocation = <<>>
    /\ lastCall = [fn |-> "none", args |-> <<>>, range |-> <<>>,
                   result |-> <<0, 1>>]

\* useState initial values of Upload
InitUploadVars ==
    /\ uploading = FALSE
    /\ clearing = FALSE
    /\ result = Null
    /\ error = Null
    /\ clearMessage = Null
    /\ uploads = <<>>
    /\ inFlight = 0
    /\ lastFile = <<>>
    /\ drops = 0

\* useState initial values of TaxCalculator
InitTaxCalcVars ==
    /\ tcMounted = FALSE
    /\ tcTaxYear = 2024
    /\ tcLosses = 0
    /\ tcResult = Null
    /\ tcDisposals = <<>>
    /\ tcLoading = FALSE
    /\ tcError = Null
    /\ tcPending = <<>>
    /\ tcIssued = 0

\* useState initial values of Dashboard
InitDashVars ==
    /\ dMounted = FALSE
    /\ dPersonId = Undefined
    /\ dHoldings = Null
    /\ dTaxResult = Null
    /\ dLoading = TRUE
    /\ dError = Null
    /\ dPending = <<>>
    /\ dIssued = 0

\* nothing rendered yet
InitTimeVars ==
    /\ daysUntil = 0
    /\ timeRemaining = ""

\* useState initial values of Settings, and an empty persons table
InitSettingsVars ==
    /\ stMounted = FALSE
    /\ persons = 0
    /\ stLoading = TRUE
    /\ stError = Null
    /\ showAddForm = FALSE
    /\ formName = ""
    /\ stored = 0
    /\ getPending = 0
    /\ created = <<>>
    /\ adds = 0

InitAppVars ==
    /\ InitSchedVars
    /\ InitClassVars
    /\ InitWhatIfVars
    /\ InitFormVars
    /\ InitCalcVars
    /\ InitUploadVars
    /\ InitTaxCalcVars
    /\ InitDashVars
    /\ InitTimeVars
    /\ InitSettingsVars

InitLots ==
    /\ InitLotVars
    /\ InitAppVars
    /\ InitTaxVars
    /\ InitRunVars
    /\ differIn = "NONE"
    /\ lossesCarriedForward = 0
    /\ taxWithheld = 0

\* Case "BUY"
Buy(r) ==
    /\ Len(data) < MaxRows
    /\ r.trType = "BUY"
    /\ data' = Append(data, r)
    /\ results' = Append(results, Blank)
    /\ dict' = [DictWith(dict, r.ticker) EXCEPT ![r.ticker] =
                   Append(@, [qty |-> r.qty,
                              cost |-> CostPerShare(r.qty, r.price, r.comm),
                              row |-> Len(data) + 1])]
    /\ takes' = Append(takes, <<>>)
    /\ UNCHANGED <<totalShares, tempLots>>
    /\ UNCHANGED <<taxVars, appVars>>
    /\ UNCHANGED runVars

\* Case "SELL"
Sell(r) ==
    /\ Len(data) < MaxRows
    /\ r.trType = "SELL"
    /\ data' = Append(data, r)
    /\ UNCHANGED <<taxVars, appVars>>
    /\ UNCHANGED runVars
    /\ LET d == DictWith(dict, r.ticker)
           lotList == d[r.ticker]
           shares == SumShares(totalShares, lotList)
       IN  /\ totalShares' = shares
           /\ IF Insufficient(shares, r.qty)
              THEN /\ results' = Append(results, NotEnoughShares)
                   /\ dict' = d
                   /\ takes' = Append(takes, <<>>)
                   /\ UNCHANGED tempLots
              ELSE LET out == ConsumeLoop(lotList, Abs(r.qty), <<0, 1>>,
                                          r.price, <<>>, tempLots)
                   IN  /\ results' = Append(results,
                              Num(Round2(FracAdd(out.realizedPL, <<-r.comm, 1>>))))
                       /\ dict' = [d EXCEPT ![r.ticker] = out.coll]
                       /\ takes' = Append(takes, out.taken)
                       /\ tempLots' = out.tmp

(***************************************************************************)
(* Ledgers fed to the lot engine.  Rows are in date order.                 *)
(***************************************************************************)
LastDate == IF data = <<>> THEN 0 ELSE data[Len(data)].date

Tickers == {"AAA", "BBB"}

\* Quantities only: two assets, one price, no fees.
NextLots ==
    \E t \in Tickers, q \in 1..MaxQty :
        \/ Buy(Row(LastDate, "BUY", t, q, 1000, 0, q * 1000))
        \/ Sell(Row(LastDate, "SELL", t, q, 1000, 0, q * 1000))

SpecLots == InitLots /\ [][NextLots]_vars

\* Dates: one asset, rows on the same day or 14 days after the row before.
Gaps == {0, 14}

DateQtys == {25, 50}

BuyPrices == {1200, 2000}

NextDates ==
    \E q \in DateQtys, g \in Gaps :
        \/ \E p \in BuyPrices : Buy(Row(LastDate + g, "BUY", "AAA", q, p, 0, q * p))
        \/ Sell(Row(LastDate + g, "SELL", "AAA", q, 1000, 0, q * 1000))

SpecDates == InitLots /\ [][NextDates]_vars

\* Money: one asset, buys at 10.00, sells at 15.00, with or without a fee
\* of 1.00.
PLQtys == {3, 8, 100}

Fees == {0, 100}

NextPL ==
    \E q \in PLQtys, c \in Fees :
        \/ Buy(Row(LastDate, "BUY", "AAA", q, 1000, c, q * 1000))
        \/ Sell(Row(LastDate, "SELL", "AAA", q, 1500, c, q * 1500))

SpecPL == InitLots /\ [][NextPL]_vars

Spec == SpecLots

(***************************************************************************)
(* Quantities the claims speak about.                                      *)
(***************************************************************************)
RECURSIVE SumSeq(_)
SumSeq(s) == IF s = <<>> THEN 0 ELSE Head(s) + SumSeq(Tail(s))

\* The open lots of an asset in the dictionary d.
LotsIn(d, t) == IF t \in DOMAIN d THEN d[t] ELSE <<>>

\* The open lots of an asset.
OpenLots(t) == LotsIn(dict, t)

\* Quantity held in the open lots of an asset.
OpenQty(t) == SumSeq([k \in 1..Len(OpenLots(t)) |-> OpenLots(t)[k].qty])

\* Quantity a row drew from lots.
TakenQty(i) == SumSeq([k \in 1..Len(takes[i]) |-> takes[i][k].qty])

\* Total quantity bought of an asset.
BoughtQty(t) ==
    SumSeq([i \in 1..Len(data) |->
               IF data[i].trType = "BUY" /\ data[i].ticker = t
               THEN data[i].qty ELSE 0])

\* Total quantity the SELL rows of an asset drew from lots.
ConsumedQty(t) ==
    SumSeq([i \in 1..Len(data) |->
               IF data[i].trType = "SELL" /\ data[i].ticker = t
               THEN TakenQty(i) ELSE 0])

\* The step reads a SELL row.
SellStep ==
    /\ Len(data') = Len(data) + 1
    /\ data'[Len(data')].trType = "SELL"

NewRow == data'[Len(data')]

(***************************************************************************)
(* C1.  Conservation: for every asset, the quantity drawn from lots by all *)
(* SELL rows plus the quantity still held in its open lots equals the      *)
(* quantity bought.                                                        *)
(***************************************************************************)
C1_Conservation ==
    \A t \in Tickers : ConsumedQty(t) + OpenQty(t) = BoughtQty(t)

(***************************************************************************)
(* C2.  A SELL whose quantity exceeds the open-lot quantity of its asset   *)
(* is reported as "#ERROR: Not enough shares" and consumes no lot, whether *)
(* it is the first SELL of the sheet or a later one.                       *)
(***************************************************************************)
C2_InsufficientIsError ==
    [][(SellStep /\ Abs(NewRow.qty) > OpenQty(NewRow.ticker))
         => /\ results'[Len(data')] = NotEnoughShares
            /\ takes'[Len(data')] = <<>>
            /\ LotsIn(dict', NewRow.ticker) = LotsIn(dict, NewRow.ticker)]_vars

(***************************************************************************)
(* C3.  A lot a SELL draws only partly from stays in the collection of     *)
(* its asset with its quantity reduced by the amount drawn and its cost    *)
(* per share unchanged; a lot drawn in full is removed.                    *)
(***************************************************************************)
C3_PartialLotReduced ==
    [][SellStep =>
         LET t == NewRow.ticker
             before == LotsIn(dict, t)
             after == LotsIn(dict', t)
             taken == takes'[Len(data')]
         IN  \A k \in 1..Len(taken) :
               \E j \in 1..Len(before) :
                 /\ before[j].row = taken[k].row
                 /\ IF taken[k].qty < before[j].qty
                    THEN \E m \in 1..Len(after) :
                           /\ after[m].row = taken[k].row
                           /\ after[m].qty = before[j].qty - taken[k].qty
                           /\ after[m].cost = before[j].cost
                    ELSE \A m \in 1..Len(after) : after[m].row # taken[k].row]_vars

(***************************************************************************)
(* Matching rules.                                                         *)
(***************************************************************************)
\* Acquisition date of the lot created by BUY row b.
AcquiredOn(b) == data'[b].date

\* Cost basis of row i: sum over the lots drawn of quantity drawn x
\* (purchase price x purchased quantity + purchase fee) / purchased quantity.
RECURSIVE CostOfTakes(_)
CostOfTakes(tk) ==
    IF tk = <<>> THEN <<0, 1>>
    ELSE LET b == data[Head(tk).row]
         IN  FracAdd(Frac(Head(tk).qty * (b.price * b.qty + b.comm), b.qty),
                     CostOfTakes(Tail(tk)))

CostBasis(i) == CostOfTakes(takes[i])

\* Days of the bed-and-breakfast window (4 weeks).
BedAndBreakfastDays == 28

(***************************************************************************)
(* C4.  A BUY dated strictly after a SELL of the same asset and within the *)
(* following 28 days is matched to that SELL before any older lot is used; *)
(* in the ledger buy 50 @ 20, sell 50 @ 10, buy 50 @ 12 fourteen days      *)
(* later, the sale has cost basis 600 and realized loss 100.               *)
(***************************************************************************)
C4_BedAndBreakfast ==
    /\ \A s \in 1..Len(data), b \in 1..Len(data) :
         ( /\ data[s].trType = "SELL" /\ data[b].trType = "BUY"
           /\ data[s].ticker = data[b].ticker
           /\ data[b].date > data[s].date
           /\ data[b].date - data[s].date <= BedAndBreakfastDays
           /\ results[s].kind = "num" )
         => \E k \in 1..Len(takes[s]) : takes[s][k].row = b
    /\ ( /\ Len(data) = 3
         /\ data[1].trType = "BUY" /\ data[1].qty = 50 /\ data[1].price = 2000
         /\ data[2].trType = "SELL" /\ data[2].qty = 50 /\ data[2].price = 1000
         /\ data[3].trType = "BUY" /\ data[3].qty = 50 /\ data[3].price = 1200
         /\ data[3].date - data[2].date = 14 )
       => /\ CostBasis(2) = <<60000, 1>>
          /\ results[2] = Num(-10000)

(***************************************************************************)
(* C5.  When a SELL finds open lots acquired on the sale date and open     *)
(* lots acquired on other dates, it draws from a lot of another date only  *)
(* after every same-day lot is drawn in full.                              *)
(***************************************************************************)
C5_SameDayFirst ==
    [][SellStep =>
         LET before == LotsIn(dict, NewRow.ticker)
             taken == takes'[Len(data')]
         IN  (\E k \in 1..Len(taken) : AcquiredOn(taken[k].row) # NewRow.date)
             => \A j \in 1..Len(before) :
                  AcquiredOn(before[j].row) = NewRow.date
                  => \E k \in 1..Len(taken) :
                       /\ taken[k].row = before[j].row
                       /\ taken[k].qty = before[j].qty]_vars

(***************************************************************************)
(* C6.  FIFO: a SELL draws from the open lots of its asset oldest first,   *)
(* lots of one acquisition date in the order they were added; it draws     *)
(* only from lots acquired on or before the sale date, each lot but the    *)
(* last one drawn in full.                                                 *)
(***************************************************************************)
C6_FifoOrder ==
    [][(SellStep /\ results'[Len(data')].kind = "num") =>
         LET before == LotsIn(dict, NewRow.ticker)
             taken == takes'[Len(data')]
             n == Len(taken)
         IN  /\ n <= Len(before)
             /\ \A k \in 1..n :
                  /\ taken[k].row = before[k].row
                  /\ AcquiredOn(taken[k].row) <= NewRow.date
                  /\ k < n => taken[k].qty = before[k].qty
                  /\ taken[k].qty <= before[k].qty
             /\ SumSeq([k \in 1..n |-> taken[k].qty])
                  = Min(Abs(NewRow.qty), SumSeq([j \in 1..Len(before) |-> before[j].qty]))
             /\ \A k \in 1..n, j \in 1..Len(before) :
                  j > n =>
                    \/ AcquiredOn(before[j].row) > AcquiredOn(taken[k].row)
                    \/ /\ AcquiredOn(before[j].row) = AcquiredOn(taken[k].row)
                       /\ before[j].row > taken[k].row]_vars

\* A SELL drew from two lots of different acquisition dates and left a
\* third lot, acquired on the date of the second, untouched.
C6_Witness ==
    \E i \in 1..Len(data) :
        /\ data[i].trType = "SELL"
        /\ results[i].kind = "num"
        /\ Len(takes[i]) = 2
        /\ data[takes[i][1].row].date < data[takes[i][2].row].date
        /\ \E b \in 1..(i - 1) :
             /\ data[b].trType = "BUY"
             /\ b > takes[i][2].row
             /\ data[b].date = data[takes[i][2].row].date

(***************************************************************************)
(* Realized gain/loss.                                                     *)
(***************************************************************************)
\* Proceeds of SELL row i: unit price x quantity - fee.
Proceeds(i) == data[i].price * Abs(data[i].qty) - data[i].comm

\* Proceeds minus cost basis of SELL row i, as an exact fraction of cents.
ExactGain(i) ==
    FracAdd(<<Proceeds(i), 1>>, <<-CostBasis(i)[1], CostBasis(i)[2]>>)

\* SELL rows that got a figure and whose whole quantity was drawn from lots.
CoveredSells ==
    {i \in 1..Len(data) :
        /\ data[i].trType = "SELL"
        /\ results[i].kind = "num"
        /\ TakenQty(i) = Abs(data[i].qty)}

\* buy 100 @ 10 without fee, sell 100 @ 15 without fee.
Example500 ==
    \A i \in CoveredSells :
        ( /\ data[i].qty = 100 /\ data[i].price = 1500 /\ data[i].comm = 0
          /\ Len(takes[i]) = 1
          /\ data[takes[i][1].row].qty = 100
          /\ data[takes[i][1].row].price = 1000
          /\ data[takes[i][1].row].comm = 0 )
        => /\ Proceeds(i) = 150000
           /\ CostBasis(i) = <<100000, 1>>
           /\ results[i] = Num(50000)

(***************************************************************************)
(* C7 as stated.  For every SELL fully covered by open lots the realized   *)
(* gain/loss equals proceeds minus cost basis exactly.                     *)
(***************************************************************************)
C7_GainIsProceedsMinusCost ==
    /\ \A i \in CoveredSells : <<results[i].val, 1>> = ExactGain(i)
    /\ Example500

(***************************************************************************)
(* C7 as amended.  For every SELL fully covered by open lots the realized  *)
(* gain/loss is proceeds minus cost basis rounded to the nearest cent.     *)
(***************************************************************************)
C7_GainIsRoundedProceedsMinusCost ==
    /\ \A i \in CoveredSells :
         2 * Abs(results[i].val * ExactGain(i)[2] - ExactGain(i)[1])
             <= ExactGain(i)[2]
    /\ Example500

\* A SELL was covered by two lots, one of them bought with a fee, and its
\* exact gain is not a whole number of cents.
C7_Witness ==
    \E i \in CoveredSells :
        /\ Len(takes[i]) = 2
        /\ \E k \in 1..2 : data[takes[i][k].row].comm > 0
        /\ ExactGain(i)[2] > 1

(***************************************************************************)
(* SummarizeTaxByYearAndCategory.                                          *)
(***************************************************************************)
MaxTaxRows == 3

\* One row of the Tax sheet: column A (isDate: it holds a date; year: its
\* year), column B (category), column D (realized P/L, in cents).
TaxRow(isDate, year, cat, pnl) ==
    [isDate |-> isDate, year |-> year, cat |-> cat, pnl |-> pnl]

\* catDict of a year first seen.
NewCatDict == [c \in {"STOCK", "ETF", "DIVIDEND", "DEPOSIT"} |-> 0]

\* Body of the read loop for one row.
Accumulate(dy, r) ==
    IF ~r.isDate THEN dy
    ELSE LET withYear == IF r.year \in DOMAIN dy THEN dy
                         ELSE dy @@ (r.year :> NewCatDict)
         IN  IF r.cat \in DOMAIN withYear[r.year]
             THEN [withYear EXCEPT ![r.year][r.cat] = @ + r.pnl]
             ELSE withYear

\* allYears after the sort: the keys of dictYear in ascending order.
RECURSIVE SortedYears(_)
SortedYears(years) ==
    IF years = {} THEN <<>>
    ELSE LET y == CHOOSE m \in years : \A n \in years : m <= n
         IN  <<y>> \o SortedYears(years \ {y})

TaxableStockNetOfETF(cDict) ==
    LET net == cDict["STOCK"] + Min(0, cDict["ETF"])
    IN  IF net > 0 THEN Max(0, net - 1270 * 100) ELSE 0

TaxableStockNoRelief(cDict) == Max(0, cDict["STOCK"])

\* taxableStock: net STOCK P/L less the annual relief of 1,270.
TaxableStock(cDict) ==
    IF cDict["STOCK"] > 0 THEN Max(0, cDict["STOCK"] - 1270 * 100) ELSE 0

\* taxStock = Round(taxableStock * 0.33, 2)
TaxStock(cDict) == Round2(Frac(TaxableStock(cDict) * 33, 100))

TaxableETFWithRelief(cDict) == Max(0, cDict["ETF"] - 1270 * 100)

\* taxableETF = Application.Max(0, netETF)
TaxableETF(cDict) == Max(0, cDict["ETF"])

\* taxETF = Round(taxableETF * 0.41, 2)
TaxETF(cDict) == Round2(Frac(TaxableETF(cDict) * 41, 100))

TaxDivNone(cDict) == 0

\* taxDiv = Round(Application.Max(0, netDiv) * 0.4, 2)
TaxDiv(cDict) == Round2(Frac(Max(0, cDict["DIVIDEND"]) * 40, 100))

TaxDepAtCgtRelief(cDict) ==
    Round2(Frac(Max(0, cDict["DEPOSIT"] - 1270 * 100) * 33, 100))

\* taxDep = Round(Application.Max(0, netDep) * 0.33, 2)
TaxDep(cDict) == Round2(Frac(Max(0, cDict["DEPOSIT"]) * 33, 100))

\* One output row (columns H:R, and the two taxable amounts).
OutRow(y, cDict) ==
    [year |-> y,
     netStock |-> cDict["STOCK"], taxableStock |-> TaxableStock(cDict),
     taxStock |-> TaxStock(cDict),
     netETF |-> cDict["ETF"], taxableETF |-> TaxableETF(cDict),
     taxETF |-> TaxETF(cDict),
     netDiv |-> cDict["DIVIDEND"], taxDiv |-> TaxDiv(cDict),
     netDep |-> cDict["DEPOSIT"], taxDep |-> TaxDep(cDict),
     totalInc |-> cDict["STOCK"] + cDict["ETF"] + cDict["DIVIDEND"] + cDict["DEPOSIT"],
     totalTax |-> TaxStock(cDict) + TaxETF(cDict) + TaxDiv(cDict) + TaxDep(cDict)]

\* The output loop over the sorted years.
OutRows(dy) ==
    LET ys == SortedYears(DOMAIN dy)
    IN  [k \in 1..Len(ys) |-> OutRow(ys[k], dy[ys[k]])]

\* Cells written row by row over what the sheet held: rows below the last
\* one written keep their content.
WriteOver(old, new) == new \o SubSeq(old, Len(new) + 1, Len(old))

\* Both runs read the same row.
ReadRow(r) ==
    /\ taxPc = "read"
    /\ Len(tax[1]) < MaxTaxRows /\ Len(tax[2]) < MaxTaxRows
    /\ tax' = [s \in 1..2 |-> Append(tax[s], r)]
    /\ dictYear' = [s \in 1..2 |-> Accumulate(dictYear[s], r)]
    /\ UNCHANGED <<taxOut, taxPc, differIn, lossesCarriedForward, taxWithheld>>
    /\ UNCHANGED <<lotVars, appVars>>
    /\ UNCHANGED runVars

\* Run s reads a row of category differIn that the sheet of the other run
\* does not have.
ReadOwnRow(s, r) ==
    /\ taxPc = "read"
    /\ Len(tax[s]) < MaxTaxRows
    /\ r.cat = differIn
    /\ tax' = [tax EXCEPT ![s] = Append(@, r)]
    /\ dictYear' = [dictYear EXCEPT ![s] = Accumulate(@, r)]
    /\ UNCHANGED <<taxOut, taxPc, differIn, lossesCarriedForward, taxWithheld>>
    /\ UNCHANGED <<lotVars, appVars>>
    /\ UNCHANGED runVars

\* The sort and the output loop.  With no year read, ReDim allYears(-1)
\* stops the macro with a run-time error before any row is written.
Summarize ==
    /\ taxPc = "read"
    /\ taxPc' = IF \E s \in 1..2 : DOMAIN dictYear[s] = {} THEN "failed" ELSE "done"
    /\ taxOut' = [s \in 1..2 |-> WriteOver(taxOut[s], OutRows(dictYear[s]))]
    /\ UNCHANGED <<tax, dictYear, differIn, lossesCarriedForward, taxWithheld>>
    /\ UNCHANGED <<lotVars, appVars>>
    /\ UNCHANGED runVars

(***************************************************************************)
(* Tax sheets fed to the aggregator.                                       *)
(***************************************************************************)
Years == {2023, 2024}

\* P/L amounts: a loss of 500.00, a gain of 1,000.00, a gain of 1,500.50.
Amounts == {-50000, 100000, 150050}

GainRows ==
    {TaxRow(TRUE, y, c, a) : y \in Years, c \in {"STOCK", "ETF"}, a \in Amounts}

OtherRows ==
    {TaxRow(TRUE, y, c, 100000) : y \in Years, c \in {"DIVIDEND", "CRYPTO"}}
        \cup {TaxRow(FALSE, 0, "STOCK", 100000)}

InitTax ==
    /\ InitLotVars
    /\ InitAppVars
    /\ InitTaxVars
    /\ InitRunVars
    /\ differIn = "NONE"
    /\ lossesCarriedForward \in {0, 50000}
    /\ taxWithheld = 0

NextTax ==
    \/ \E r \in GainRows \cup OtherRows : ReadRow(r)
    \/ Summarize

SpecTax == InitTax /\ [][NextTax]_vars

\* Interest: DEPOSIT rows of 1,000.00 or 1,500.50, and a STOCK gain.
InterestRows ==
    {TaxRow(TRUE, y, "DEPOSIT", a) : y \in Years, a \in {100000, 150050}}
        \cup {TaxRow(TRUE, y, "STOCK", 150050) : y \in Years}

InitInterest ==
    /\ InitLotVars
    /\ InitAppVars
    /\ InitTaxVars
    /\ InitRunVars
    /\ differIn = "NONE"
    /\ lossesCarriedForward = 0
    /\ taxWithheld \in {0, 10000}

NextInterest ==
    \/ \E r \in InterestRows : ReadRow(r)
    \/ Summarize

SpecInterest == InitInterest /\ [][NextInterest]_vars

InitIsolation ==
    /\ InitLotVars
    /\ InitAppVars
    /\ InitTaxVars
    /\ InitRunVars
    /\ differIn \in {"STOCK", "ETF"}
    /\ lossesCarriedForward = 0
    /\ taxWithheld = 0

\* Two runs: a loss of 500.00 or a gain of 1,500.50 per row.
IsoAmounts == {-50000, 150050}

\* Rows per sheet when two runs are compared.
MaxIsoRows == 2

NextIsolation ==
    \/ \E y \in Years, c \in {"STOCK", "ETF"}, a \in IsoAmounts :
          /\ Len(tax[1]) < MaxIsoRows /\ Len(tax[2]) < MaxIsoRows
          /\ ReadRow(TaxRow(TRUE, y, c, a))
    \/ \E s \in 1..2, y \in Years, a \in IsoAmounts :
          /\ Len(tax[s]) < MaxIsoRows
          /\ ReadOwnRow(s, TaxRow(TRUE, y, differIn, a))
    \/ Summarize

SpecIsolation == InitIsolation /\ [][NextIsolation]_vars

(***************************************************************************)
(* Figures of a year, taken from the rows of the sheet of run s.           *)
(***************************************************************************)
\* Sum of the gains (sign = 1) or of the losses (sign = -1) of category cat
\* dated in year y.
YearSum(s, y, cat, sign) ==
    SumSeq([i \in 1..Len(tax[s]) |->
               IF /\ tax[s][i].isDate /\ tax[s][i].year = y
                  /\ tax[s][i].cat = cat /\ sign * tax[s][i].pnl > 0
               THEN sign * tax[s][i].pnl ELSE 0])

NetGain(s, y, cat) == YearSum(s, y, cat, 1) - YearSum(s, y, cat, -1)

\* Years with a dated row.
SheetYears(s) == {tax[s][i].year : i \in {k \in 1..Len(tax[s]) : tax[s][k].isDate}}

OutYears(s) == {taxOut[s][i].year : i \in 1..Len(taxOut[s])}

\* t is x percent of amount, rounded to the nearest cent.
IsRoundedPercent(t, x, amount) == 2 * Abs(100 * t - x * amount) <= 100

(***************************************************************************)
(* C8.  Regime isolation: when two Tax sheets differ only in ETF rows,     *)
(* the CGT taxable amount and CGT tax of every year are the same in both   *)
(* outputs; when they differ only in STOCK rows, the Exit-Tax taxable      *)
(* amount and Exit Tax of every year are the same in both outputs.  A year *)
(* that only one sheet has, has amount and tax 0 in that regime.           *)
(***************************************************************************)
C8_RegimeIsolation ==
    taxPc = "done" =>
        \A s \in 1..2 : \A i \in 1..Len(taxOut[s]) :
            LET o == taxOut[s][i]
                other == {j \in 1..Len(taxOut[3 - s]) : taxOut[3 - s][j].year = o.year}
            IN  /\ differIn = "ETF" =>
                     IF other = {}
                     THEN o.taxableStock = 0 /\ o.taxStock = 0
                     ELSE \A j \in other :
                            /\ o.taxableStock = taxOut[3 - s][j].taxableStock
                            /\ o.taxStock = taxOut[3 - s][j].taxStock
                /\ differIn = "STOCK" =>
                     IF other = {}
                     THEN o.taxableETF = 0 /\ o.taxETF = 0
                     ELSE \A j \in other :
                            /\ o.taxableETF = taxOut[3 - s][j].taxableETF
                            /\ o.taxETF = taxOut[3 - s][j].taxETF

\* Two sheets with a taxable STOCK gain in a year whose ETF rows net to a
\* loss in one sheet and to a gain in the other.
C8_Witness ==
    /\ taxPc = "done"
    /\ differIn = "ETF"
    /\ \E i \in 1..Len(taxOut[1]), j \in 1..Len(taxOut[2]) :
         /\ taxOut[1][i].year = taxOut[2][j].year
         /\ taxOut[1][i].taxStock > 0
         /\ taxOut[1][i].netETF < 0
         /\ taxOut[2][j].netETF > 0
         /\ taxOut[1][i].taxETF # taxOut[2][j].taxETF

C10_ExitTaxExact ==
    taxPc = "done" =>
        /\ OutYears(1) = SheetYears(1)
        /\ \A i \in 1..Len(taxOut[1]) :
             LET o == taxOut[1][i]
             IN  /\ o.taxableETF = Max(0, NetGain(1, o.year, "ETF"))
                 /\ 100 * o.taxETF = 41 * o.taxableETF

(***************************************************************************)
(* C10 as amended.  For every tax year, Exit Tax taxable = max(0, ETF      *)
(* gains of the year - ETF losses of the year), with no exemption and no   *)
(* loss of another year, and Exit Tax due is 41% of it rounded to the      *)
(* cent.                                                                   *)
(***************************************************************************)
C10_ExitTaxRounded ==
    taxPc = "done" =>
        /\ OutYears(1) = SheetYears(1)
        /\ \A i \in 1..Len(taxOut[1]) :
             LET o == taxOut[1][i]
             IN  /\ o.taxableETF = Max(0, NetGain(1, o.year, "ETF"))
                 /\ IsRoundedPercent(o.taxETF, 41, o.taxableETF)

\* A year with a net ETF loss is followed by a year with a net ETF gain
\* whose 41% is not a whole number of cents.
C10_Witness ==
    /\ taxPc = "done"
    /\ \E i \in 1..Len(taxOut[1]), j \in 1..Len(taxOut[1]) :
         /\ i < j
         /\ taxOut[1][i].netETF < 0
         /\ taxOut[1][j].netETF > 0
         /\ taxOut[1][j].taxETF > 0
         /\ (41 * taxOut[1][j].taxableETF) % 100 # 0

WriteResults ==
    /\ lotPc = "loop"
    /\ data # <<>>
    /\ colK' = WriteOver(colK, results)
    /\ lotPc' = "ended"
    /\ UNCHANGED <<macro, run, sheet, firstOut>>
    /\ UNCHANGED <<lotVars, taxVars, appVars>>

InvokeFIFOStatic ==
    /\ lotPc = "ended"
    /\ sheet' = data
    /\ firstOut' = colK
    /\ run' = run + 1
    /\ lotPc' = "loop"
    /\ data' = <<>> /\ results' = <<>> /\ dict' = <<>> /\ takes' = <<>>
    /\ UNCHANGED <<totalShares, tempLots, macro, colK>>
    /\ UNCHANGED <<taxVars, appVars>>

\* ComputeFIFO_Fast is called again on the sheet as it is: its variables
\* are those of a new call.
InvokeFIFO ==
    /\ lotPc = "ended"
    /\ sheet' = data
    /\ firstOut' = colK
    /\ run' = run + 1
    /\ lotPc' = "loop"
    /\ data' = <<>> /\ results' = <<>> /\ dict' = <<>> /\ takes' = <<>>
    /\ totalShares' = 0 /\ tempLots' = <<>>
    /\ UNCHANGED <<macro, colK>>
    /\ UNCHANGED <<taxVars, appVars>>

\* SummarizeTaxByYearAndCategory is called again on the sheet as it is.
InvokeTax ==
    /\ taxPc = "done"
    /\ sheet' = tax[1]
    /\ firstOut' = taxOut[1]
    /\ run' = run + 1
    /\ tax' = <<<<>>, <<>>>>
    /\ dictYear' = <<<<>>, <<>>>>
    /\ taxPc' = "read"
    /\ UNCHANGED <<taxOut, differIn, lossesCarriedForward, taxWithheld>>
    /\ UNCHANGED <<macro, lotPc, colK>>
    /\ UNCHANGED <<lotVars, appVars>>

InitRerun ==
    /\ InitLotVars
    /\ InitAppVars
    /\ InitTaxVars
    /\ differIn = "NONE"
    /\ lossesCarriedForward = 0
    /\ taxWithheld = 0
    /\ macro \in {"fifo", "tax"}
    /\ run = 0
    /\ lotPc = "loop"
    /\ sheet = <<>>
    /\ colK = <<>>
    /\ firstOut = <<>>

\* First run: any rows.  Second run: the rows of the sheet, in order.
RerunRows ==
    IF run = 0
    THEN {Row(0, t, "AAA", q, 1000, 0, q * 1000) : t \in {"BUY", "SELL"}, q \in 1..MaxQty}
    ELSE IF Len(data) < Len(sheet) THEN {sheet[Len(data) + 1]} ELSE {}

RerunTaxRows ==
    IF run = 0
    THEN {TaxRow(TRUE, y, c, a) : y \in Years, c \in {"STOCK", "ETF"}, a \in IsoAmounts}
    ELSE IF Len(tax[1]) < Len(sheet) THEN {sheet[Len(tax[1]) + 1]} ELSE {}

NextRerun ==
    \/ /\ macro = "fifo" /\ lotPc = "loop"
       /\ \E r \in RerunRows : Buy(r) \/ Sell(r)
    \/ /\ macro = "fifo" /\ (run = 0 \/ Len(data) = Len(sheet))
       /\ WriteResults
    \/ /\ macro = "fifo" /\ run = 0
       /\ InvokeFIFO
    \/ /\ macro = "tax"
       /\ \E r \in RerunTaxRows : ReadRow(r)
    \/ /\ macro = "tax" /\ (run = 0 \/ Len(tax[1]) = Len(sheet))
       /\ Summarize
    \/ /\ macro = "tax" /\ run = 0
       /\ InvokeTax

SpecRerun == InitRerun /\ [][NextRerun]_vars

(***************************************************************************)
(* C13.  The macros hold no state between runs: a second run of            *)
(* ComputeFIFO_Fast on the unchanged Transactions sheet leaves column K as *)
(* the first run wrote it, and a second run of                             *)
(* SummarizeTaxByYearAndCategory on the unchanged Tax sheet leaves the     *)
(* output rows as the first run wrote them.                                *)
(***************************************************************************)
C13_SecondRunSameOutput ==
    /\ (macro = "fifo" /\ run = 1 /\ lotPc = "ended") => colK = firstOut
    /\ (macro = "tax" /\ run = 1 /\ taxPc = "done") => taxOut[1] = firstOut

\* The second run of the lot engine has ended on a sheet on which the first
\* run reported an error after an earlier SELL had drawn from a lot.
C13_Witness ==
    /\ macro = "fifo" /\ run = 1 /\ lotPc = "ended"
    /\ \E i \in 1..Len(colK), j \in 1..Len(colK) :
         /\ i < j
         /\ colK[i].kind = "num"
         /\ colK[j].kind = "error"

(***************************************************************************)
(* The lot engine on a sheet and on the rows of one asset alone.           *)
(***************************************************************************)
\* The entries of vals that stand at the rows of asset t.
RECURSIVE OfAsset(_, _, _)
OfAsset(rows, vals, t) ==
    IF rows = <<>> THEN <<>>
    ELSE (IF Head(rows).ticker = t THEN <<Head(vals)>> ELSE <<>>)
             \o OfAsset(Tail(rows), Tail(vals), t)

\* ComputeFIFO_Fast is called on a sheet that holds the rows of asset AAA
\* only, in the same order.
InvokeOnAssetAlone ==
    /\ lotPc = "ended"
    /\ sheet' = OfAsset(data, data, "AAA")
    /\ firstOut' = OfAsset(data, colK, "AAA")
    /\ colK' = <<>>
    /\ run' = run + 1
    /\ lotPc' = "loop"
    /\ data' = <<>> /\ results' = <<>> /\ dict' = <<>> /\ takes' = <<>>
    /\ totalShares' = 0 /\ tempLots' = <<>>
    /\ UNCHANGED macro
    /\ UNCHANGED <<taxVars, appVars>>

InitScoped ==
    /\ InitLotVars
    /\ InitAppVars
    /\ InitTaxVars
    /\ differIn = "NONE"
    /\ lossesCarriedForward = 0
    /\ taxWithheld = 0
    /\ macro = "fifo"
    /\ run = 0
    /\ lotPc = "loop"
    /\ sheet = <<>>
    /\ colK = <<>>
    /\ firstOut = <<>>

\* First run: rows of two assets.  Second run: the rows of the sheet.
ScopedRows ==
    IF run = 0
    THEN {Row(0, k, t, q, 1000, 0, q * 1000) :
              k \in {"BUY", "SELL"}, t \in Tickers, q \in 1..MaxQty}
    ELSE IF Len(data) < Len(sheet) THEN {sheet[Len(data) + 1]} ELSE {}

NextScoped ==
    \/ /\ lotPc = "loop"
       /\ \E r \in ScopedRows : Buy(r) \/ Sell(r)
    \/ /\ run = 0 \/ Len(data) = Len(sheet)
       /\ WriteResults
    \/ /\ run = 0
       /\ InvokeOnAssetAlone

SpecScoped == InitScoped /\ [][NextScoped]_vars

(***************************************************************************)
(* C14.  Lots are scoped per asset: every row of asset AAA gets the same   *)
(* result (figure or error) on a sheet that also holds rows of asset BBB   *)
(* as on the sheet that holds the rows of AAA alone.                       *)
(***************************************************************************)
C14_ScopedPerAsset ==
    (run = 1 /\ lotPc = "ended") => colK = firstOut

(***************************************************************************)
(* An Exit-Tax asset in the lot engine.                                    *)
(***************************************************************************)
\* Tickers of EU-domiciled funds (ISIN starting with IE, LU, DE, ...).
ExitTaxAssets == {"IE00B4L5Y983"}

\* One EU fund, rows on the same day or 14 days after the row before.
NextExit ==
    \E t \in ExitTaxAssets, q \in DateQtys, g \in Gaps :
        \/ Buy(Row(LastDate + g, "BUY", t, q, 1200, 0, q * 1200))
        \/ Sell(Row(LastDate + g, "SELL", t, q, 1000, 0, q * 1000))

SpecExit == InitLots /\ [][NextExit]_vars

(***************************************************************************)
(* C15.  A SELL of an Exit-Tax asset is matched strictly FIFO: it draws    *)
(* from a lot only when every open lot added before that lot is drawn in   *)
(* full, so a lot acquired on the sale date never pre-empts an older one;  *)
(* it draws only from lots of earlier rows, and what earlier rows drew is  *)
(* not revised by a later BUY.                                             *)
(***************************************************************************)
C15_ExitTaxStrictFifo ==
    [][(SellStep /\ NewRow.ticker \in ExitTaxAssets) =>
         LET before == LotsIn(dict, NewRow.ticker)
             taken == takes'[Len(data')]
         IN  /\ \A k \in 1..Len(taken) :
                  /\ taken[k].row < Len(data')
                  /\ \A j \in 1..Len(before) :
                       before[j].row < taken[k].row =>
                         /\ AcquiredOn(before[j].row) <= AcquiredOn(taken[k].row)
                         /\ \E m \in 1..Len(taken) :
                              /\ taken[m].row = before[j].row
                              /\ taken[m].qty = before[j].qty
             /\ SubSeq(takes', 1, Len(takes)) = takes
             /\ SubSeq(results', 1, Len(results)) = results]_vars

\* A SELL of an EU fund drew from an older lot only, while a lot acquired
\* on the sale date was open.
C15_Witness ==
    \E i \in 1..Len(data) :
        /\ data[i].trType = "SELL"
        /\ data[i].ticker \in ExitTaxAssets
        /\ results[i].kind = "num"
        /\ Len(takes[i]) = 1
        /\ data[takes[i][1].row].date < data[i].date
        /\ \E b \in 1..(i - 1) :
             /\ data[b].trType = "BUY"
             /\ data[b].date = data[i].date

(***************************************************************************)
(* Deemed-disposal scheduler for Exit-Tax lots (the 8-year rule).          *)
(***************************************************************************)
MaxExitLots == 2

DeemedDisposalYears == 8

Date(y, m, d) == [y |-> y, m |-> m, d |-> d]

\* a is on or before b
DateLE(a, b) ==
    \/ a.y < b.y
    \/ a.y = b.y /\ a.m < b.m
    \/ a.y = b.y /\ a.m = b.m /\ a.d <= b.d

AddYearsCountingFirst(date, n) == [date EXCEPT !.y = @ + n - 1]

\* The same day and month, n years later.
AddYears(date, n) == [date EXCEPT !.y = @ + n]

ExitLot(isin, acq, qty, cost) ==
    [isin |-> isin, acquisition_date |-> acq, quantity |-> qty,
     cost_basis |-> cost]

MarketValueOrZero(mvs, i) == IF i \in DOMAIN mvs THEN Num(mvs[i]) ELSE Num(0)

\* The unit market value the caller supplied for lot i, if any.
MarketValueOf(mvs, i) == IF i \in DOMAIN mvs THEN Num(mvs[i]) ELSE Null

\* One line of the report; gain and tax are Null when not computed.
Line(i, lot, status, gain, taxDue) ==
    [lot |-> i, isin |-> lot.isin, status |-> status,
     acquisition_date |-> lot.acquisition_date,
     deemed_disposal_date |-> AddYears(lot.acquisition_date, DeemedDisposalYears),
     quantity |-> lot.quantity, cost_basis |-> lot.cost_basis,
     estimated_gain |-> gain, estimated_tax |-> taxDue]

\* Exit tax on one gain: the flat 41% of the gain floored at zero.
ExitTaxOn(gain) == Round2(Frac(Max(0, gain) * 41, 100))

\* The lot after a deemed disposal at unit value mv: the clock restarts on
\* the deemed-disposal date and the lot counts as acquired at that value.
ResetLot(lot, mv) ==
    [lot EXCEPT !.acquisition_date = AddYears(@, DeemedDisposalYears),
                !.cost_basis = mv * lot.quantity]

\* All the cycles of lot i that are due on evaluation date e, oldest first,
\* then the line of the cycle that is not due yet or cannot be valued.
RECURSIVE Cycles(_, _, _, _)
Cycles(i, lot, e, mv) ==
    IF ~DateLE(AddYears(lot.acquisition_date, DeemedDisposalYears), e)
    THEN [lot |-> lot, lines |-> <<Line(i, lot, "upcoming", Null, Null)>>]
    ELSE IF mv = Null
    THEN [lot |-> lot,
          lines |-> <<Line(i, lot, "pending_valuation", Null, Null)>>]
    ELSE LET gain == mv.val * lot.quantity - lot.cost_basis
             rest == Cycles(i, ResetLot(lot, mv.val), e, mv)
         IN  [lot |-> rest.lot,
              lines |-> <<Line(i, lot, "deemed", Num(gain),
                               Num(ExitTaxOn(gain)))>> \o rest.lines]

RECURSIVE Concat(_)
Concat(ss) == IF ss = <<>> THEN <<>> ELSE Head(ss) \o Concat(Tail(ss))

SelectStatus(lines, status) == SelectSeq(lines, LAMBDA l : l.status = status)

RECURSIVE SumGains(_)
SumGains(lines) ==
    IF lines = <<>> THEN 0
    ELSE Head(lines).estimated_gain.val + SumGains(Tail(lines))

RECURSIVE SumTaxes(_)
SumTaxes(lines) ==
    IF lines = <<>> THEN 0
    ELSE Head(lines).estimated_tax.val + SumTaxes(Tail(lines))

\* Totals of the Exit-Tax block that the scheduler feeds.
Totals(disposals, errs) ==
    [deemed_disposal_gains |-> SumGains(disposals),
     tax |-> SumTaxes(disposals),
     pending |-> {x.lot : x \in errs}]

\* One run of the scheduler on the open lots, for evaluation date e and
\* the market values mvs.
Schedule(e, mvs) ==
    LET out == [i \in 1..Len(exitLots) |->
                   Cycles(i, exitLots[i], e, MarketValueOf(mvs, i))]
        all == Concat([i \in 1..Len(exitLots) |-> out[i].lines])
    IN  /\ exitLots' = [i \in 1..Len(exitLots) |-> out[i].lot]
        /\ report' = all
        /\ applied' = applied \o SelectStatus(all, "deemed")
        /\ errors' = {[error |-> "MissingValuationError", lot |-> l.lot] :
                        l \in {all[k] : k \in {j \in 1..Len(all) :
                                 all[j].status = "pending_valuation"}}}
        /\ evalDate' = e
        /\ marketValues' = mvs
        /\ schedRuns' = schedRuns + 1

AcquisitionDates ==
    {Date(2008, 5, 1), Date(2016, 5, 1), Date(2016, 6, 15), Date(2017, 5, 1)}

EvaluationDates == {Date(2024, 6, 1), Date(2025, 1, 1)}

UnitValues == {8000, 15000}

\* A BUY of an EU fund opens an Exit-Tax lot.
Acquire(lot) ==
    /\ schedRuns = 0
    /\ Len(exitLots) < MaxExitLots
    /\ exitLots' = Append(exitLots, lot)
    /\ UNCHANGED <<evalDate, marketValues, applied, report, errors,
                   schedRuns, firstTotals>>
    /\ UNCHANGED <<pageVars, lotVars, taxVars, runVars>>
    /\ UNCHANGED <<classVars, whatIfVars, formVars>>

RunScheduler(e, mvs) ==
    /\ schedRuns = 0
    /\ exitLots # <<>>
    /\ Schedule(e, mvs)
    /\ firstTotals' = Totals(applied', errors')
    /\ UNCHANGED <<pageVars, lotVars, taxVars, runVars>>
    /\ UNCHANGED <<classVars, whatIfVars, formVars>>

\* The scheduler again, with the same evaluation date and market values,
\* on the lots as the first run left them.
RunSchedulerAgain ==
    /\ schedRuns = 1
    /\ Schedule(evalDate, marketValues)
    /\ UNCHANGED firstTotals
    /\ UNCHANGED <<pageVars, lotVars, taxVars, runVars>>
    /\ UNCHANGED <<classVars, whatIfVars, formVars>>

InitSched ==
    /\ InitLotVars
    /\ InitAppVars
    /\ InitTaxVars
    /\ differIn = "NONE"
    /\ lossesCarriedForward = 0
    /\ taxWithheld = 0
    /\ InitRunVars

NextSched ==
    \/ \E a \in AcquisitionDates, t \in ExitTaxAssets :
         Acquire(ExitLot(t, a, 10, 100000))
    \/ \E e \in EvaluationDates, S \in SUBSET (1..Len(exitLots)) :
         \E mvs \in [S -> UnitValues] : RunScheduler(e, mvs)
    \/ RunSchedulerAgain

SpecSched == InitSched /\ [][NextSched]_vars

(***************************************************************************)
(* C16.  Every reported line has its deemed-disposal date on the same day  *)
(* and month exactly 8 years after its acquisition date, every open lot    *)
(* has such a line for its running cycle, and a second run of the          *)
(* scheduler with the same evaluation date leaves the totals of the first  *)
(* run unchanged.                                                          *)
(***************************************************************************)
C16_EightYearsAndIdempotent ==
    /\ \A k \in 1..Len(report) :
         report[k].deemed_disposal_date =
            Date(report[k].acquisition_date.y + 8,
                 report[k].acquisition_date.m, report[k].acquisition_date.d)
    /\ schedRuns >= 1 =>
         \A i \in 1..Len(exitLots) : \E k \in 1..Len(report) :
            /\ report[k].lot = i
            /\ report[k].status \in {"upcoming", "pending_valuation"}
            /\ report[k].acquisition_date = exitLots[i].acquisition_date
    /\ schedRuns = 2 =>
         /\ Totals(applied, errors) = firstTotals
         /\ \A k \in 1..Len(report) : report[k].status # "deemed"

\* The scheduler ran twice and the first run applied a deemed disposal
\* with a gain.
C16_Witness ==
    /\ schedRuns = 2
    /\ applied # <<>>
    /\ firstTotals.deemed_disposal_gains > 0

\* A step of the scheduler.
RunStep == schedRuns' = schedRuns + 1

(***************************************************************************)
(* C17.  When the scheduler runs on a lot whose deemed-disposal date has   *)
(* passed at the evaluation date and the caller supplied no market value   *)
(* for it, the lot is reported as pending valuation with a                 *)
(* MissingValuationError, its gain and tax are not computed, and no        *)
(* deemed disposal is applied for it.                                      *)
(***************************************************************************)
C17_MissingValuationPending ==
    [][RunStep =>
         \A i \in 1..Len(exitLots) :
            LET acq == exitLots[i].acquisition_date
            IN  (/\ DateLE(Date(acq.y + 8, acq.m, acq.d), evalDate')
                 /\ i \notin DOMAIN marketValues')
                => /\ \E k \in 1..Len(report') :
                        /\ report'[k].lot = i
                        /\ report'[k].status = "pending_valuation"
                   /\ \A k \in 1..Len(report') :
                        report'[k].lot = i =>
                          /\ report'[k].estimated_gain = Null
                          /\ report'[k].estimated_tax = Null
                   /\ [error |-> "MissingValuationError", lot |-> i] \in errors'
                   /\ \A k \in 1..Len(applied') : applied'[k].lot # i
                   /\ exitLots'[i] = exitLots[i]]_vars

\* The lot bought 2016-05-01, evaluated 2024-06-01 with no market value:
\* due 2024-05-01, pending valuation.
C17_Witness ==
    /\ schedRuns >= 1
    /\ evalDate = Date(2024, 6, 1)
    /\ \E k \in 1..Len(report) :
         /\ report[k].acquisition_date = Date(2016, 5, 1)
         /\ report[k].deemed_disposal_date = Date(2024, 5, 1)
         /\ report[k].status = "pending_valuation"
         /\ report[k].lot \notin DOMAIN marketValues

(***************************************************************************)
(* Asset classification shown on the dashboard.                            *)
(***************************************************************************)
MaxTypeRows == 2

getTaxTreatmentEuAsDefault(type) ==
    CASE type = "stock" -> "CGT 33% (EUR 1,270 exemption)"
      [] type = "etf_non_eu" -> "CGT 33% (EUR 1,270 exemption)"
      [] type = "cash" -> "DIRT 33%"
      [] OTHER -> "CGT 33%"

\* switch (type) of Dashboard.tsx; the euro sign is written EUR here.
getTaxTreatment(type) ==
    CASE type = "stock" -> "CGT 33% (EUR 1,270 exemption)"
      [] type = "etf_eu" -> "Exit Tax 41% (no exemption)"
      [] type = "etf_non_eu" -> "CGT 33% (EUR 1,270 exemption)"
      [] type = "cash" -> "DIRT 33%"
      [] OTHER -> "CGT 33%"

\* The same switch in the later version of the dashboard.
getTaxTreatment_part_007(type) ==
    CASE type = "stock" -> "CGT 33%"
      [] type = "etf_eu" -> "Exit Tax 41%"
      [] type = "etf_non_eu" -> "CGT 33%"
      [] type = "cash" -> "DIRT 33%"
      [] OTHER -> "CGT 33%"

\* asset_type values: the four the switch names and others it does not.
AssetTypes == {"stock", "etf_eu", "etf_non_eu", "cash", "bond", "crypto", ""}

\* <td>{getTaxTreatment(type)}</td> for one row of the by-type table
RenderRow(type) ==
    /\ Len(byType) < MaxTypeRows
    /\ byType' = Append(byType, [type |-> type, page |-> "Dashboard.tsx",
                                 treatment |-> getTaxTreatment(type)])
    /\ UNCHANGED <<pageVars, lotVars, taxVars, runVars, schedVars, whatIfVars, formVars>>

RenderRow_part_007(type) ==
    /\ Len(byType) < MaxTypeRows
    /\ byType' = Append(byType, [type |-> type, page |-> "part_007",
                                 treatment |-> getTaxTreatment_part_007(type)])
    /\ UNCHANGED <<pageVars, lotVars, taxVars, runVars, schedVars, whatIfVars, formVars>>

NextClass ==
    \E type \in AssetTypes :
        \/ RenderRow(type)
        \/ RenderRow_part_007(type)

SpecClass == InitSched /\ [][NextClass]_vars

\* The labels of the three regimes.
CgtLabels == {"CGT 33%", "CGT 33% (EUR 1,270 exemption)"}
ExitTaxLabels == {"Exit Tax 41%", "Exit Tax 41% (no exemption)"}
DirtLabels == {"DIRT 33%"}

(***************************************************************************)
(* C18.  Every asset kind gets a treatment, which is one of the three      *)
(* regimes; an EU-domiciled fund gets Exit Tax 41%; a kind the switch does *)
(* not name gets standard CGT 33%.                                         *)
(***************************************************************************)
C18_ClassificationTotal ==
    \A k \in 1..Len(byType) :
        /\ byType[k].treatment \in CgtLabels \cup ExitTaxLabels \cup DirtLabels
        /\ byType[k].type = "etf_eu" => byType[k].treatment \in ExitTaxLabels
        /\ byType[k].type \notin {"stock", "etf_eu", "etf_non_eu", "cash"}
              => byType[k].treatment = "CGT 33%"

\* Both versions of the page have shown an EU fund or a kind without a case
\* of its own: one row is an EU fund, the other an unrecognised kind.
C18_Witness ==
    /\ \E k \in 1..Len(byType) :
         byType[k].type = "etf_eu" /\ byType[k].page = "Dashboard.tsx"
    /\ \E k \in 1..Len(byType) :
         byType[k].type = "crypto" /\ byType[k].page = "part_007"

(***************************************************************************)
(* The what-if calculator of the TaxPlanning page.                         *)
(***************************************************************************)
HoldingLists == {<<>>, <<"IE00B4L5Y983">>, <<"IE00B4L5Y983", "AAA">>}

PersonIds == {Undefined, Num(1)}

OpportunityLists == {<<>>, <<"AAA">>}

WhatIfResults == {[kind |-> "result", estimated_tax |-> 0],
                  [kind |-> "result", estimated_tax |-> 4100]}

\* onClick of the person buttons
SelectPerson(p) ==
    /\ selectedPersonId' = p
    /\ UNCHANGED <<holdings, selectedIsin, quantity, salePrice, whatIfResult,
                   whatIfLoading, whatIfError, opportunities, whatIfPc,
                   whatIfDone>>
    /\ UNCHANGED <<pageVars, lotVars, taxVars, runVars, schedVars, classVars, formVars>>

\* loadInitialData and loadHoldings, when getHoldings has resolved with data
loadHoldings(list) ==
    /\ holdings' = list
    /\ IF selectedIsin # "" /\ \A k \in 1..Len(list) : list[k] # selectedIsin
       THEN selectedIsin' = "" /\ whatIfResult' = Null
       ELSE UNCHANGED <<selectedIsin, whatIfResult>>
    /\ UNCHANGED <<selectedPersonId, quantity, salePrice, whatIfLoading,
                   whatIfError, opportunities, whatIfPc, whatIfDone>>
    /\ UNCHANGED <<pageVars, lotVars, taxVars, runVars, schedVars, classVars, formVars>>

\* loadOpportunities, when getLossHarvestingOpportunities has resolved
loadOpportunities(list) ==
    /\ opportunities' = list
    /\ UNCHANGED <<holdings, selectedPersonId, selectedIsin, quantity,
                   salePrice, whatIfResult, whatIfLoading, whatIfError,
                   whatIfPc, whatIfDone>>
    /\ UNCHANGED <<pageVars, lotVars, taxVars, runVars, schedVars, classVars, formVars>>

\* onChange of the asset select
SelectAsset(isin) ==
    /\ selectedIsin' = isin
    /\ whatIfResult' = Null
    /\ quantity' = ""
    /\ salePrice' = ""
    /\ UNCHANGED <<holdings, selectedPersonId, whatIfLoading, whatIfError,
                   opportunities, whatIfPc, whatIfDone>>
    /\ UNCHANGED <<pageVars, lotVars, taxVars, runVars, schedVars, classVars, formVars>>

\* onChange of the quantity and sale price inputs
EnterSale(q, p) ==
    /\ selectedIsin # ""
    /\ quantity' = q
    /\ salePrice' = p
    /\ UNCHANGED <<holdings, selectedPersonId, selectedIsin, whatIfResult,
                   whatIfLoading, whatIfError, opportunities, whatIfPc,
                   whatIfDone>>
    /\ UNCHANGED <<pageVars, lotVars, taxVars, runVars, schedVars, classVars, formVars>>

\* handleCalculateWhatIf up to the await; the submit button is disabled
\* while whatIfLoading.
handleCalculateWhatIf ==
    /\ ~whatIfLoading
    /\ selectedIsin # "" /\ quantity # "" /\ salePrice # ""
    /\ whatIfLoading' = TRUE
    /\ whatIfError' = Null
    /\ whatIfPc' = "awaiting"
    /\ UNCHANGED <<holdings, selectedPersonId, selectedIsin, quantity,
                   salePrice, whatIfResult, opportunities, whatIfDone>>
    /\ UNCHANGED <<pageVars, lotVars, taxVars, runVars, schedVars, classVars, formVars>>

\* calculateWhatIf has resolved: setWhatIfResult(result), then finally
WhatIfResolved(response) ==
    /\ whatIfPc = "awaiting"
    /\ whatIfResult' = response
    /\ whatIfLoading' = FALSE
    /\ whatIfPc' = "idle"
    /\ whatIfDone' = whatIfDone \cup {"ok"}
    /\ UNCHANGED <<holdings, selectedPersonId, selectedIsin, quantity,
                   salePrice, whatIfError, opportunities>>
    /\ UNCHANGED <<pageVars, lotVars, taxVars, runVars, schedVars, classVars, formVars>>

WhatIfRejectedClearsSelection(msg) ==
    /\ whatIfPc = "awaiting"
    /\ whatIfError' = msg
    /\ whatIfResult' = Null
    /\ whatIfLoading' = FALSE
    /\ whatIfPc' = "idle"
    /\ whatIfDone' = whatIfDone \cup {"failed"}
    /\ selectedIsin' = ""
    /\ UNCHANGED <<holdings, selectedPersonId, quantity, salePrice,
                   opportunities>>
    /\ UNCHANGED <<pageVars, lotVars, taxVars, runVars, schedVars, classVars, formVars>>

\* calculateWhatIf has rejected: the catch block, then finally
WhatIfRejected(msg) ==
    /\ whatIfPc = "awaiting"
    /\ whatIfError' = msg
    /\ whatIfResult' = Null
    /\ whatIfLoading' = FALSE
    /\ whatIfPc' = "idle"
    /\ whatIfDone' = whatIfDone \cup {"failed"}
    /\ UNCHANGED <<holdings, selectedPersonId, selectedIsin, quantity,
                   salePrice, opportunities>>
    /\ UNCHANGED <<pageVars, lotVars, taxVars, runVars, schedVars, classVars, formVars>>

NextWhatIf ==
    \/ \E p \in PersonIds : SelectPerson(p)
    \/ \E list \in HoldingLists : loadHoldings(list)
    \/ \E list \in OpportunityLists : loadOpportunities(list)
    \/ \E isin \in {"", "IE00B4L5Y983", "AAA"} : SelectAsset(isin)
    \/ \E q \in {"", "10"}, p \in {"", "15.00"} : EnterSale(q, p)
    \/ handleCalculateWhatIf
    \/ \E response \in WhatIfResults : WhatIfResolved(response)
    \/ \E msg \in {Msg("Insufficient shares"), Msg("Calculation failed")} :
         WhatIfRejected(msg)

SpecWhatIf == InitSched /\ [][NextWhatIf]_vars

\* A step of handleCalculateWhatIf: it starts the query or ends it.
WhatIfStep == whatIfPc' # whatIfPc

(***************************************************************************)
(* C19.  A step of the what-if query, whether it starts the query, ends it *)
(* with a result or ends it with an error, leaves the holdings list, the   *)
(* selected asset, the selected person, the loss-harvesting data and the   *)
(* inputs as they were: only the what-if result, error and loading flag    *)
(* change.                                                                 *)
(***************************************************************************)
C19_WhatIfFrame ==
    [][WhatIfStep =>
         /\ holdings' = holdings
         /\ selectedIsin' = selectedIsin
         /\ selectedPersonId' = selectedPersonId
         /\ opportunities' = opportunities
         /\ quantity' = quantity /\ salePrice' = salePrice
         /\ UNCHANGED <<pageVars, lotVars, taxVars, runVars, schedVars, classVars,
                        formVars>>]_vars

\* One query has succeeded and one has failed, with holdings, a selected
\* asset, a selected person and loss-harvesting data in place.
C19_Witness ==
    /\ whatIfDone = {"ok", "failed"}
    /\ whatIfPc = "idle"
    /\ holdings # <<>>
    /\ selectedIsin # ""
    /\ selectedPersonId # Undefined
    /\ opportunities # <<>>

(***************************************************************************)
(* The manual transaction form of the Portfolio page.                      *)
(***************************************************************************)
MaxSubmits == 3

\* s.trim()
Trim(s) == IF s = " " THEN "" ELSE s

ValidationErrorZeroPriceOk(editing, fd) ==
    IF editing = Null /\ Trim(fd.isin) = "" THEN Msg("ISIN is required")
    ELSE IF editing = Null /\ Trim(fd.name) = ""
    THEN Msg("Asset name is required")
    ELSE IF fd.quantity <= 0 THEN Msg("Quantity must be greater than 0")
    ELSE IF fd.unit_price < 0 THEN Msg("Price must be greater than 0")
    ELSE Null

\* The validation block: the message of the first check that fails, or Null.
ValidationError(editing, fd) ==
    IF editing = Null /\ Trim(fd.isin) = "" THEN Msg("ISIN is required")
    ELSE IF editing = Null /\ Trim(fd.name) = ""
    THEN Msg("Asset name is required")
    ELSE IF fd.quantity <= 0 THEN Msg("Quantity must be greater than 0")
    ELSE IF fd.unit_price <= 0 THEN Msg("Price must be greater than 0")
    ELSE Null

\* updateData of an update, transactionData of a create
RequestFor(editing, fd) ==
    IF editing # Null
    THEN [kind |-> "update", id |-> editing.id,
          data |-> [transaction_date |-> fd.transaction_date,
                    quantity |-> fd.quantity, unit_price |-> fd.unit_price,
                    fees |-> fd.fees, notes |-> fd.notes]]
    ELSE [kind |-> "create", id |-> 0, data |-> fd]

\* The ledger after the backend has carried out a request.
Stored(led, req) ==
    IF req.kind = "create"
    THEN Append(led, [id |-> Len(led) + 1, data |-> req.data])
    ELSE [k \in 1..Len(led) |->
            IF led[k].id = req.id
            THEN [led[k] EXCEPT !.data.transaction_date = req.data.transaction_date,
                                !.data.quantity = req.data.quantity,
                                !.data.unit_price = req.data.unit_price,
                                !.data.fees = req.data.fees,
                                !.data.notes = req.data.notes]
            ELSE led[k]]

\* onClick of the Add Transaction / Cancel button
ToggleForm ==
    /\ showForm' = ~showForm
    /\ formData' = EmptyForm
    /\ editingTransaction' = Null
    /\ UNCHANGED <<formLoading, formError, formSuccess, requests, ledger,
                   transactions, closeTimers, submitPc, submits>>
    /\ UNCHANGED <<pageVars, lotVars, taxVars, runVars, schedVars, classVars, whatIfVars>>

handleEditTransaction(trans) ==
    /\ editingTransaction' = trans
    /\ formData' = trans.data
    /\ showForm' = TRUE
    /\ formError' = Null
    /\ formSuccess' = Null
    /\ UNCHANGED <<formLoading, requests, ledger, transactions, closeTimers,
                   submitPc, submits>>
    /\ UNCHANGED <<pageVars, lotVars, taxVars, runVars, schedVars, classVars, whatIfVars>>

\* onChange of the inputs of the form
EnterForm(isin, name, qty, price) ==
    /\ showForm
    /\ formData' = [formData EXCEPT !.isin = isin, !.name = name,
                                    !.quantity = qty, !.unit_price = price]
    /\ UNCHANGED <<showForm, formLoading, formError, formSuccess,
                   editingTransaction, requests, ledger, transactions,
                   closeTimers, submitPc, submits>>
    /\ UNCHANGED <<pageVars, lotVars, taxVars, runVars, schedVars, classVars, whatIfVars>>

\* handleSubmitTransaction up to its return or its first await; the form is
\* rendered only while showForm, its button is disabled while formLoading.
handleSubmitTransaction ==
    /\ showForm /\ ~formLoading
    /\ submits < MaxSubmits
    /\ submits' = submits + 1
    /\ formSuccess' = Null
    /\ IF ValidationError(editingTransaction, formData) # Null
       THEN /\ formError' = ValidationError(editingTransaction, formData)
            /\ UNCHANGED <<formLoading, requests, submitPc>>
       ELSE /\ formError' = Null
            /\ formLoading' = TRUE
            /\ requests' = Append(requests,
                                  RequestFor(editingTransaction, formData))
            /\ submitPc' = "saving"
    /\ UNCHANGED <<showForm, editingTransaction, formData, ledger,
                   transactions, closeTimers>>
    /\ UNCHANGED <<pageVars, lotVars, taxVars, runVars, schedVars, classVars, whatIfVars>>

\* createTransaction or updateTransaction has resolved: setFormSuccess,
\* resetForm, then loadData is awaited
SaveResolved ==
    /\ submitPc = "saving"
    /\ ledger' = Stored(ledger, requests[Len(requests)])
    /\ formSuccess' = Msg("saved")
    /\ formData' = EmptyForm
    /\ editingTransaction' = Null
    /\ submitPc' = "reloading"
    /\ UNCHANGED <<showForm, formLoading, formError, requests, transactions,
                   closeTimers, submits>>
    /\ UNCHANGED <<pageVars, lotVars, taxVars, runVars, schedVars, classVars, whatIfVars>>

\* createTransaction or updateTransaction has rejected: catch, then finally
SaveRejected(msg) ==
    /\ submitPc = "saving"
    /\ formError' = msg
    /\ formLoading' = FALSE
    /\ submitPc' = "idle"
    /\ UNCHANGED <<showForm, formSuccess, editingTransaction, formData,
                   requests, ledger, transactions, closeTimers, submits>>
    /\ UNCHANGED <<pageVars, lotVars, taxVars, runVars, schedVars, classVars, whatIfVars>>

\* loadData has returned: setTimeout is armed, then finally
ReloadDone ==
    /\ submitPc = "reloading"
    /\ transactions' = ledger
    /\ closeTimers' = closeTimers + 1
    /\ formLoading' = FALSE
    /\ submitPc' = "idle"
    /\ UNCHANGED <<showForm, formError, formSuccess, editingTransaction,
                   formData, requests, ledger, submits>>
    /\ UNCHANGED <<pageVars, lotVars, taxVars, runVars, schedVars, classVars, whatIfVars>>

\* the setTimeout callback, 1500 ms after a save
TimerFires ==
    /\ closeTimers > 0
    /\ closeTimers' = closeTimers - 1
    /\ showForm' = FALSE
    /\ formSuccess' = Null
    /\ UNCHANGED <<formLoading, formError, editingTransaction, formData,
                   requests, ledger, transactions, submitPc, submits>>
    /\ UNCHANGED <<pageVars, lotVars, taxVars, runVars, schedVars, classVars, whatIfVars>>

NextForm ==
    \/ ToggleForm
    \/ \E k \in 1..Len(transactions) : handleEditTransaction(transactions[k])
    \/ \E isin \in {"", "IE00B4L5Y983"}, name \in {" ", "Fund"},
          qty \in {-1, 0, 5}, price \in {-1, 0, 1000} :
         EnterForm(isin, name, qty, price)
    \/ handleSubmitTransaction
    \/ SaveResolved
    \/ SaveRejected(Msg("Failed to save transaction"))
    \/ ReloadDone
    \/ TimerFires

SpecForm == InitSched /\ [][NextForm]_vars

\* A call of handleSubmitTransaction.
SubmitStep == submits' = submits + 1

OtherAsPurchase(r) ==
    /\ Len(data) < MaxRows
    /\ r.trType \notin {"BUY", "SELL"}
    /\ data' = Append(data, r)
    /\ results' = Append(results,
          IF r.trType \in {"DIVIDEND", "INTEREST"} THEN Num(r.totalVal)
          ELSE IF r.trType = "DEPOSIT" THEN Num(0)
          ELSE Blank)
    /\ dict' = [DictWith(dict, r.ticker) EXCEPT ![r.ticker] =
                   Append(@, [qty |-> 1, cost |-> <<0, 1>>,
                              row |-> Len(data) + 1])]
    /\ takes' = Append(takes, <<>>)
    /\ UNCHANGED <<totalShares, tempLots>>
    /\ UNCHANGED <<taxVars, appVars>>
    /\ UNCHANGED runVars

\* Case "DIVIDEND", "INTEREST"; Case "DEPOSIT"; Case Else
Other(r) ==
    /\ Len(data) < MaxRows
    /\ r.trType \notin {"BUY", "SELL"}
    /\ data' = Append(data, r)
    /\ results' = Append(results,
          IF r.trType \in {"DIVIDEND", "INTEREST"} THEN Num(r.totalVal)
          ELSE IF r.trType = "DEPOSIT" THEN Num(0)
          ELSE Blank)
    /\ dict' = DictWith(dict, r.ticker)
    /\ takes' = Append(takes, <<>>)
    /\ UNCHANGED <<totalShares, tempLots>>
    /\ UNCHANGED <<taxVars, appVars>>
    /\ UNCHANGED runVars

\* The entries of vals that stand at the BUY and SELL rows.
RECURSIVE OfTrades(_, _)
OfTrades(rows, vals) ==
    IF rows = <<>> THEN <<>>
    ELSE (IF Head(rows).trType \in {"BUY", "SELL"} THEN <<Head(vals)>>
          ELSE <<>>) \o OfTrades(Tail(rows), Tail(vals))

\* ComputeFIFO_Fast is called on a sheet that holds the BUY and SELL rows
\* only, in the same order; sheet and firstOut keep the first sheet.
InvokeOnTradesAlone ==
    /\ lotPc = "ended"
    /\ sheet' = data
    /\ firstOut' = colK
    /\ colK' = <<>>
    /\ run' = run + 1
    /\ lotPc' = "loop"
    /\ data' = <<>> /\ results' = <<>> /\ dict' = <<>> /\ takes' = <<>>
    /\ totalShares' = 0 /\ tempLots' = <<>>
    /\ UNCHANGED macro
    /\ UNCHANGED <<taxVars, appVars>>

IncomeKinds == {"DIVIDEND", "INTEREST", "DEPOSIT", "FEE"}

\* First run: trades and income rows of one asset.  Second run: the BUY
\* and SELL rows of the first sheet.
IncomeRows ==
    IF run = 0
    THEN {Row(0, k, "AAA", q, 1000, 0, q * 1000) :
              k \in {"BUY", "SELL"}, q \in 1..MaxQty}
         \cup {Row(0, k, "AAA", 0, 0, 0, 500) : k \in IncomeKinds}
    ELSE IF Len(data) < Len(OfTrades(sheet, sheet))
         THEN {OfTrades(sheet, sheet)[Len(data) + 1]} ELSE {}

NextIncome ==
    \/ /\ lotPc = "loop"
       /\ \E r \in IncomeRows : Buy(r) \/ Sell(r) \/ Other(r)
    \/ /\ run = 0 \/ Len(data) = Len(OfTrades(sheet, sheet))
       /\ WriteResults
    \/ /\ run = 0
       /\ InvokeOnTradesAlone

SpecIncome == InitScoped /\ [][NextIncome]_vars

\* The macro reads a row that is neither a BUY nor a SELL.
OtherStep ==
    /\ Len(data') = Len(data) + 1
    /\ data'[Len(data')].trType \notin {"BUY", "SELL"}

(***************************************************************************)
(* C21.  A DIVIDEND, INTEREST, DEPOSIT or unrecognised row leaves every    *)
(* asset's open lots and the results of the rows before it unchanged and   *)
(* gets its total value (DIVIDEND, INTEREST), 0 (DEPOSIT) or blank         *)
(* (other); and every BUY and SELL row gets the same result on the sheet   *)
(* with such rows as on the sheet without them.                            *)
(***************************************************************************)
C21_IncomeRowsApart ==
    [][/\ OtherStep =>
            /\ \A t \in Tickers \cup {NewRow.ticker} :
                  LotsIn(dict', t) = LotsIn(dict, t)
            /\ SubSeq(results', 1, Len(results)) = results
            /\ results'[Len(data')] =
                  CASE NewRow.trType \in {"DIVIDEND", "INTEREST"} ->
                          [kind |-> "num", val |-> NewRow.totalVal]
                    [] NewRow.trType = "DEPOSIT" -> [kind |-> "num", val |-> 0]
                    [] OTHER -> [kind |-> "blank", val |-> 0]
       /\ (run' = 1 /\ lotPc' = "ended") =>
            colK' = OfTrades(sheet', firstOut')]_vars

\* The first sheet sold shares after a dividend row, and the sheet without
\* the income rows has been run too.
C21_Witness ==
    /\ run = 1 /\ lotPc = "ended"
    /\ \E i \in 1..Len(sheet), j \in 1..Len(sheet) :
         /\ i < j
         /\ sheet[i].trType = "DIVIDEND"
         /\ sheet[j].trType = "SELL"
         /\ firstOut[j].kind = "num"
         /\ firstOut[i] = Num(500)

(***************************************************************************)
(* CalculateInvestment and CalculateNewPercentage.  Percentages are in     *)
(* hundredths (desiredPercent = pct / 100), amounts are whole numbers, a   *)
(* need is kept times 100.                                                 *)
(***************************************************************************)
MaxAssets == 3

\* A cell that holds text instead of a number.
Text == [kind |-> "text", val |-> 0]

\* Application.WorksheetFunction.Round(x, 0): halves away from zero
WorksheetRound(f) ==
    LET a == (2 * Abs(f[1]) + f[2]) \div (2 * f[2])
    IN  IF f[1] < 0 THEN -a ELSE a

ValidInputsZeroInvestOk(pct, total, new) ==
    ~(pct < 0 \/ pct > 100) /\ ~(new < 0 \/ total < 0)

\* Input validation: neither If of the validation block fires.
ValidInputs(pct, total, new) ==
    ~(pct < 0 \/ pct > 100) /\ ~(new <= 0 \/ total < 0)

\* (targetAmount - currentAmount) * 100
NeedOf(final, pct, cur) == final * pct - 100 * cur

\* Reading a cell into a Double raises a type mismatch when it holds text.
Raises(range) ==
    \E i \in 1..Len(range) : range[i].pct.kind # "num" \/ range[i].cur.kind # "num"

RowNeed(final, row) == NeedOf(final, row.pct.val, row.cur.val)

\* totalNeeded * 100 after the first loop
RECURSIVE TotalNeeded(_, _)
TotalNeeded(final, range) ==
    IF range = <<>> THEN 0
    ELSE Max(0, RowNeed(final, Head(range))) + TotalNeeded(final, Tail(range))

\* assetsNotNeedingInvestment after the first loop
RECURSIVE NotNeeding(_, _)
NotNeeding(final, range) ==
    IF range = <<>> THEN 0
    ELSE (IF RowNeed(final, Head(range)) > 0 THEN 0 ELSE 1)
             + NotNeeding(final, Tail(range))

\* Max(1, Round((need / totalNeeded) * availableForDistribution, 0))
Proportional(need, totalNeeded, available) ==
    Max(1, WorksheetRound(Frac(need * available, totalNeeded)))

\* The first row that holds desiredPercent and currentAmount, or 0.
CurrentRowIndex(pct, cur, range) ==
    LET hits == {i \in 1..Len(range) :
                    range[i].pct.val = pct /\ range[i].cur.val = cur}
    IN  IF hits = {} THEN 0 ELSE CHOOSE i \in hits : \A j \in hits : i <= j

\* totalAllocated: the allocations of the rows before the last
RECURSIVE TotalAllocated(_, _, _, _)
TotalAllocated(final, rows, totalNeeded, available) ==
    IF rows = <<>> THEN 0
    ELSE (IF RowNeed(final, Head(rows)) <= 0 THEN 1
          ELSE IF totalNeeded > 0
          THEN Proportional(RowNeed(final, Head(rows)), totalNeeded, available)
          ELSE 1)
         + TotalAllocated(final, Tail(rows), totalNeeded, available)

EnsureMinimumOff(x) == x

\* If CalculateInvestment < 1 Then CalculateInvestment = 1
EnsureMinimum(x) == IF x < 1 THEN 1 ELSE x

CalculateInvestment(pct, cur, total, new, range) ==
    IF ~ValidInputs(pct, total, new) THEN 0
    ELSE LET final == total + new
             needed == NeedOf(final, pct, cur)
         IN  IF needed <= 0 THEN 1
             ELSE IF Raises(range) THEN 0
             ELSE LET totalNeeded == TotalNeeded(final, range)
                      available == new - NotNeeding(final, range)
                      own == IF totalNeeded > 0 /\ available > 0
                             THEN Proportional(needed, totalNeeded, available)
                             ELSE 1
                  IN  IF CurrentRowIndex(pct, cur, range) = Len(range)
                      THEN EnsureMinimum(new -
                              TotalAllocated(final,
                                  SubSeq(range, 1, Len(range) - 1),
                                  totalNeeded, available))
                      ELSE own

\* The result as an exact fraction.
CalculateNewPercentage(cur, added, total, new) ==
    IF total + new <= 0 THEN <<0, 1>>
    ELSE Frac(cur + added, total + new)

Percents == {30, 40}

Amounts0 == {0, 1000}

\* A row is added at the end of the target range.
AddAsset(pct, cur) ==
    /\ Len(targetRange) < MaxAssets
    /\ targetRange' = Append(targetRange, [pct |-> pct, cur |-> cur])
    /\ allocation' = <<>>
    /\ UNCHANGED <<totalCurrentAmount, newInvestAmount, lastCall>>
    /\ UNCHANGED calcVarsFrame

\* The cells of the two amounts are edited.
SetAmounts(total, new) ==
    /\ totalCurrentAmount' = total
    /\ newInvestAmount' = new
    /\ allocation' = <<>>
    /\ UNCHANGED <<targetRange, lastCall>>
    /\ UNCHANGED calcVarsFrame

\* The sheet recalculates: the formula of every row is evaluated with the
\* row's two cells, the two amounts and the whole range.
Recalculate ==
    /\ targetRange # <<>>
    /\ ~Raises(targetRange)
    /\ newInvestAmount > 0
    /\ allocation' = [i \in 1..Len(targetRange) |->
          CalculateInvestment(targetRange[i].pct.val, targetRange[i].cur.val,
                              totalCurrentAmount, newInvestAmount, targetRange)]
    /\ UNCHANGED <<targetRange, totalCurrentAmount, newInvestAmount, lastCall>>
    /\ UNCHANGED calcVarsFrame

\* CalculateInvestment is called with arguments of its own on the range.
CallInvestment(pct, cur, total, new) ==
    /\ targetRange # <<>>
    /\ lastCall' = [fn |-> "CalculateInvestment",
                    args |-> <<pct, cur, total, new>>, range |-> targetRange,
                    result |-> <<CalculateInvestment(pct, cur, total, new,
                                                     targetRange), 1>>]
    /\ UNCHANGED <<targetRange, totalCurrentAmount, newInvestAmount, allocation>>
    /\ UNCHANGED calcVarsFrame

CallNewPercentage(cur, added, total, new) ==
    /\ lastCall' = [fn |-> "CalculateNewPercentage",
                    args |-> <<cur, added, total, new>>, range |-> <<>>,
                    result |-> CalculateNewPercentage(cur, added, total, new)]
    /\ UNCHANGED <<targetRange, totalCurrentAmount, newInvestAmount, allocation>>
    /\ UNCHANGED calcVarsFrame

\* The sheet: a range of numbers, the two amounts, the formulas.
NextAlloc ==
    \/ \E pct \in Percents, cur \in Amounts0 : AddAsset(Num(pct), Num(cur))
    \/ \E total \in Amounts0, new \in {2, 100} : SetAmounts(total, new)
    \/ Recalculate

SpecAlloc == InitSched /\ [][NextAlloc]_vars

\* Single calls of the two functions, on ranges that may hold text.
NextCalc ==
    \/ \E pct \in Percents, cur \in Amounts0 : AddAsset(Num(pct), Num(cur))
    \/ AddAsset(Text, Num(0))
    \/ \E pct \in {-10, 30, 150}, cur \in Amounts0,
          total \in {-1, 1000}, new \in {0, 1, 100} :
         CallInvestment(pct, cur, total, new)
    \/ \E cur \in {1000}, added \in {50},
          total \in {-100, 1000}, new \in {0, 100} :
         CallNewPercentage(cur, added, total, new)

SpecCalc == InitSched /\ [][NextCalc]_vars

(***************************************************************************)
(* C22.  When the formula has been evaluated in every row of a range with  *)
(* the same two amounts, the results add up to exactly newInvestAmount,    *)
(* the last row holding what the other rows leave.                         *)
(***************************************************************************)
C22_SumIsNewInvest ==
    allocation # <<>> =>
        /\ SumSeq(allocation) = newInvestAmount
        /\ allocation[Len(allocation)] =
              newInvestAmount
                - SumSeq(SubSeq(allocation, 1, Len(allocation) - 1))

\* The arguments of the last call of CalculateInvestment.
ArgPct == lastCall.args[1]
ArgCur == lastCall.args[2]
ArgTotal == lastCall.args[3]
ArgNew == lastCall.args[4]

\* The last call was CalculateInvestment with 0 <= desiredPercent <= 1,
\* newInvestAmount > 0 and totalCurrentAmount >= 0.
ValidCall ==
    /\ lastCall.fn = "CalculateInvestment"
    /\ 0 <= ArgPct /\ ArgPct <= 100
    /\ ArgNew > 0
    /\ ArgTotal >= 0

\* The asset of the last call is at or above its target amount.
AtOrAboveTarget == 100 * ArgCur >= (ArgTotal + ArgNew) * ArgPct

\* A cell of the range of the last call holds text.
TextInRange ==
    \E i \in 1..Len(lastCall.range) :
        lastCall.range[i].pct.kind = "text" \/ lastCall.range[i].cur.kind = "text"

C24_ZeroOnBadInput ==
    /\ lastCall.fn = "CalculateInvestment" =>
         /\ (ArgPct < 0 \/ ArgPct > 100 \/ ArgNew <= 0 \/ ArgTotal < 0)
               => lastCall.result = <<0, 1>>
         /\ (ValidCall /\ ~AtOrAboveTarget /\ TextInRange)
               => lastCall.result = <<0, 1>>
    /\ lastCall.fn = "CalculateNewPercentage" =>
         IF lastCall.args[3] + lastCall.args[4] <= 0
         THEN lastCall.result = <<0, 1>>
         ELSE /\ lastCall.result[2] > 0
              /\ lastCall.result[1] * (lastCall.args[3] + lastCall.args[4])
                   = (lastCall.args[1] + lastCall.args[2]) * lastCall.result[2]

\* A call with valid arguments raised an error on a cell of text and
\* returned 0.
C24_Witness ==
    /\ ValidCall /\ ~AtOrAboveTarget /\ TextInRange
    /\ lastCall.result = <<0, 1>>

(***************************************************************************)
(* The Upload page.  A file name is a sequence of characters.              *)
(***************************************************************************)
MaxDrops == 3

EndsWithAnyCase(s, suffix) ==
    /\ Len(s) >= Len(suffix)
    /\ \A k \in 1..Len(suffix) :
         LET c == s[Len(s) - Len(suffix) + k]
         IN  c = suffix[k] \/ (c = "P" /\ suffix[k] = "p")
                \/ (c = "D" /\ suffix[k] = "d") \/ (c = "F" /\ suffix[k] = "f")

\* s.endsWith(suffix)
EndsWith(s, suffix) ==
    /\ Len(s) >= Len(suffix)
    /\ SubSeq(s, Len(s) - Len(suffix) + 1, Len(s)) = suffix

FileNames ==
    {<<"a", ".", "p", "d", "f">>, <<"a", ".", "P", "D", "F">>,
     <<"a", ".", "t", "x", "t">>, <<"p", "d", "f">>}

\* handleFile up to its return or its await
handleFile(file) ==
    /\ drops < MaxDrops
    /\ drops' = drops + 1
    /\ lastFile' = file
    /\ IF ~EndsWith(file, <<".", "p", "d", "f">>)
       THEN /\ error' = Msg("Please upload a PDF file")
            /\ UNCHANGED <<uploading, result, clearMessage, uploads, inFlight>>
       ELSE /\ uploading' = TRUE
            /\ error' = Null
            /\ result' = Null
            /\ clearMessage' = Null
            /\ uploads' = Append(uploads, file)
            /\ inFlight' = inFlight + 1
    /\ UNCHANGED clearing
    /\ UNCHANGED uploadVarsFrame

\* uploadPDF has resolved: setResult(response), then finally
UploadResolved ==
    /\ inFlight > 0
    /\ inFlight' = inFlight - 1
    /\ result' = [kind |-> "response", success |-> TRUE]
    /\ uploading' = FALSE
    /\ UNCHANGED <<clearing, error, clearMessage, uploads, lastFile, drops>>
    /\ UNCHANGED uploadVarsFrame

\* uploadPDF has rejected: the catch block, then finally
UploadRejected ==
    /\ inFlight > 0
    /\ inFlight' = inFlight - 1
    /\ error' = Msg("Upload failed")
    /\ uploading' = FALSE
    /\ UNCHANGED <<clearing, result, clearMessage, uploads, lastFile, drops>>
    /\ UNCHANGED uploadVarsFrame

\* handleClearData, confirmed, up to its await; the button is disabled
\* while clearing.
handleClearData ==
    /\ ~clearing
    /\ clearing' = TRUE
    /\ error' = Null
    /\ result' = Null
    /\ UNCHANGED <<uploading, clearMessage, uploads, inFlight, lastFile, drops>>
    /\ UNCHANGED uploadVarsFrame

\* clearAllData has resolved
ClearResolved ==
    /\ clearing
    /\ clearMessage' = Msg("Deleted")
    /\ clearing' = FALSE
    /\ UNCHANGED <<uploading, result, error, uploads, inFlight, lastFile, drops>>
    /\ UNCHANGED uploadVarsFrame

\* clearAllData has rejected
ClearRejected ==
    /\ clearing
    /\ error' = Msg("Failed to clear data")
    /\ clearing' = FALSE
    /\ UNCHANGED <<uploading, result, clearMessage, uploads, inFlight,
                   lastFile, drops>>
    /\ UNCHANGED uploadVarsFrame

NextUpload ==
    \/ \E file \in FileNames : handleFile(file)
    \/ UploadResolved
    \/ UploadRejected
    \/ handleClearData
    \/ ClearResolved
    \/ ClearRejected

SpecUpload == InitSched /\ [][NextUpload]_vars

\* A call of handleFile.
FileStep == drops' = drops + 1

\* The name of the file does not end in ".pdf".
NotPdf(file) ==
    \/ Len(file) < 4
    \/ file[Len(file) - 3] # "." \/ file[Len(file) - 2] # "p"
    \/ file[Len(file) - 1] # "d" \/ file[Len(file)] # "f"

(***************************************************************************)
(* C25.  A call of handleFile with a file whose name does not end in       *)
(* ".pdf" sets the error 'Please upload a PDF file', sends no upload       *)
(* request, and leaves the uploading flag and the previous result as they  *)
(* were.                                                                   *)
(***************************************************************************)
C25_NonPdfRejected ==
    [][(FileStep /\ NotPdf(lastFile')) =>
          /\ error' = Msg("Please upload a PDF file")
          /\ uploads' = uploads /\ inFlight' = inFlight
          /\ uploading' = uploading
          /\ result' = result]_vars

\* A file named a.PDF was rejected after an upload had succeeded.
C25_Witness ==
    /\ lastFile = <<"a", ".", "P", "D", "F">>
    /\ error = Msg("Please upload a PDF file")
    /\ result # Null
    /\ Len(uploads) = 1

(***************************************************************************)
(* C26.  The result and the error are never both set, and the clear        *)
(* message and the error are never both set.                               *)
(***************************************************************************)
C26_SuccessAndErrorApart ==
    /\ ~(result # Null /\ error # Null)
    /\ ~(clearMessage # Null /\ error # Null)

(***************************************************************************)
(* The Tax Calculator page.                                                *)
(***************************************************************************)
MaxCalculations == 3

\* The response of the backend to calculateTax(taxYear, losses).
TaxResponse(year, losses) ==
    [kind |-> "result", tax_year |-> year, losses_carried_forward |-> losses]

\* calculate() up to its await, with the taxYear and lossesCarriedForward
\* of the render it is called from
calculate(year, losses) ==
    /\ tcIssued < MaxCalculations
    /\ tcIssued' = tcIssued + 1
    /\ tcLoading' = TRUE
    /\ tcError' = Null
    /\ tcPending' = Append(tcPending, [taxYear |-> year, losses |-> losses])
    /\ UNCHANGED <<tcResult, tcDisposals>>

\* First render: the effect runs calculate().
MountCalculator ==
    /\ ~tcMounted
    /\ tcMounted' = TRUE
    /\ calculate(tcTaxYear, tcLosses)
    /\ UNCHANGED <<tcTaxYear, tcLosses>>
    /\ UNCHANGED taxCalcVarsFrame

\* onChange of the year select, then the effect
ChangeTaxYear(year) ==
    /\ tcMounted
    /\ year # tcTaxYear
    /\ tcTaxYear' = year
    /\ calculate(year, tcLosses)
    /\ UNCHANGED <<tcMounted, tcLosses>>
    /\ UNCHANGED taxCalcVarsFrame

\* onChange of the losses input, then the effect
ChangeLosses(losses) ==
    /\ tcMounted
    /\ losses # tcLosses
    /\ tcLosses' = losses
    /\ calculate(tcTaxYear, losses)
    /\ UNCHANGED <<tcMounted, tcTaxYear>>
    /\ UNCHANGED taxCalcVarsFrame

\* onClick of the button, which is disabled while loading
ClickCalculate ==
    /\ tcMounted
    /\ ~tcLoading
    /\ calculate(tcTaxYear, tcLosses)
    /\ UNCHANGED <<tcMounted, tcTaxYear, tcLosses>>
    /\ UNCHANGED taxCalcVarsFrame

\* The sequence without its k-th element.
Without(s, k) == SubSeq(s, 1, k - 1) \o SubSeq(s, k + 1, Len(s))

\* Promise.all of the k-th pending call has resolved
CalculateResolved(k) ==
    /\ tcResult' = TaxResponse(tcPending[k].taxYear, tcPending[k].losses)
    /\ tcDisposals' = <<3>>
    /\ tcLoading' = FALSE
    /\ tcPending' = Without(tcPending, k)
    /\ UNCHANGED <<tcMounted, tcTaxYear, tcLosses, tcError, tcIssued>>
    /\ UNCHANGED taxCalcVarsFrame

\* Promise.all of the k-th pending call has rejected
CalculateRejected(k) ==
    /\ tcError' = Msg("Failed to calculate tax")
    /\ tcLoading' = FALSE
    /\ tcPending' = Without(tcPending, k)
    /\ UNCHANGED <<tcMounted, tcTaxYear, tcLosses, tcResult, tcDisposals,
                   tcIssued>>
    /\ UNCHANGED taxCalcVarsFrame

NextTaxCalc ==
    \/ MountCalculator
    \/ \E year \in {2024, 2023, 2022} : ChangeTaxYear(year)
    \/ \E losses \in {0, 500} : ChangeLosses(losses)
    \/ ClickCalculate
    \/ \E k \in 1..Len(tcPending) : CalculateResolved(k)
    \/ \E k \in 1..Len(tcPending) : CalculateRejected(k)

SpecTaxCalc == InitSched /\ [][NextTaxCalc]_vars

(***************************************************************************)
(* C27.  Once every calculate() call has settled, without an error shown,  *)
(* the result on display is the response for the selected taxYear and      *)
(* lossesCarriedForward; and loading is false only when no call is         *)
(* awaiting its response.                                                  *)
(***************************************************************************)
C27_LatestRequestWins ==
    /\ (tcMounted /\ tcPending = <<>> /\ tcError = Null) =>
          tcResult = [kind |-> "result", tax_year |-> tcTaxYear,
                      losses_carried_forward |-> tcLosses]
    /\ ~tcLoading => tcPending = <<>>

(***************************************************************************)
(* The Dashboard page.                                                     *)
(***************************************************************************)
MaxLoads == 3

\* The response of the backend to calculateTax(2024, 0, person).
TaxFor(person) == [kind |-> "result", person_id |-> person]

\* loadData() up to its first await, with the selectedPersonId of the
\* render it is called from
loadData(person) ==
    /\ dIssued < MaxLoads
    /\ dIssued' = dIssued + 1
    /\ dLoading' = TRUE
    /\ dPending' = Append(dPending, [person |-> person, at |-> "data"])
    /\ UNCHANGED <<dHoldings, dTaxResult, dError>>

\* First render: the effect runs loadData().
MountDashboard ==
    /\ ~dMounted
    /\ dMounted' = TRUE
    /\ loadData(dPersonId)
    /\ UNCHANGED dPersonId
    /\ UNCHANGED dashVarsFrame

\* onClick of a person button, then the effect
FilterByPerson(person) ==
    /\ dMounted
    /\ person # dPersonId
    /\ dPersonId' = person
    /\ loadData(person)
    /\ UNCHANGED dMounted
    /\ UNCHANGED dashVarsFrame

\* Promise.all of the k-th call has resolved: the five setters, then
\* calculateTax is awaited
DataResolved(k) ==
    /\ dPending[k].at = "data"
    /\ dHoldings' = [kind |-> "data", person_id |-> dPending[k].person]
    /\ dPending' = [dPending EXCEPT ![k].at = "tax"]
    /\ UNCHANGED <<dMounted, dPersonId, dTaxResult, dLoading, dError, dIssued>>
    /\ UNCHANGED dashVarsFrame

\* Promise.all of the k-th call has rejected: outer catch, then finally
DataRejected(k) ==
    /\ dPending[k].at = "data"
    /\ dError' = Msg("Failed to load data. Make sure the backend is running.")
    /\ dLoading' = FALSE
    /\ dPending' = Without(dPending, k)
    /\ UNCHANGED <<dMounted, dPersonId, dHoldings, dTaxResult, dIssued>>
    /\ UNCHANGED dashVarsFrame

\* calculateTax of the k-th call has resolved: setTaxResult, then finally
TaxResolved(k) ==
    /\ dPending[k].at = "tax"
    /\ dTaxResult' = TaxFor(dPending[k].person)
    /\ dLoading' = FALSE
    /\ dPending' = Without(dPending, k)
    /\ UNCHANGED <<dMounted, dPersonId, dHoldings, dError, dIssued>>
    /\ UNCHANGED dashVarsFrame

\* calculateTax of the k-th call has rejected: the empty catch, then finally
TaxRejected(k) ==
    /\ dPending[k].at = "tax"
    /\ dLoading' = FALSE
    /\ dPending' = Without(dPending, k)
    /\ UNCHANGED <<dMounted, dPersonId, dHoldings, dTaxResult, dError, dIssued>>
    /\ UNCHANGED dashVarsFrame

NextDash ==
    \/ MountDashboard
    \/ \E person \in {Undefined, Num(1), Num(2)} : FilterByPerson(person)
    \/ \E k \in 1..Len(dPending) :
         \/ DataResolved(k)
         \/ DataRejected(k)
         \/ TaxResolved(k)
         \/ TaxRejected(k)

SpecDash == InitSched /\ [][NextDash]_vars

(***************************************************************************)
(* C28.  When every loadData call has returned, the tax result on display  *)
(* is absent or is the response computed for the selected person.          *)
(***************************************************************************)
C28_TaxOfSelectedPerson ==
    (dMounted /\ dPending = <<>>) =>
        \/ dTaxResult = Null
        \/ dTaxResult = [kind |-> "result", person_id |-> dPersonId]

(***************************************************************************)
(* The time remaining to a deadline on the Dashboard.                      *)
(***************************************************************************)
MaxDays == 740

\* formatTimeRemaining(days)
formatTimeRemaining(days) ==
    IF days < 0 THEN "OVERDUE"
    ELSE IF days = 0 THEN "Today!"
    ELSE IF days = 1 THEN "1 day"
    ELSE IF days < 30 THEN ToString(days) \o " days"
    ELSE IF days < 365 THEN
        LET months == days \div 30
        IN  IF months = 1 THEN "1 month" ELSE ToString(months) \o " months"
    ELSE
        LET years == days \div 365
            remainingMonths == (days % 365) \div 30
        IN  IF remainingMonths = 0
            THEN IF years = 1 THEN "1 year" ELSE ToString(years) \o " years"
            ELSE IF years = 1
                 THEN "1 year " \o ToString(remainingMonths) \o "m"
                 ELSE ToString(years) \o " years " \o ToString(remainingMonths) \o "m"

\* a deadline row is rendered for a date that is days away
RenderDeadline(days) ==
    /\ daysUntil' = days
    /\ timeRemaining' = formatTimeRemaining(days)
    /\ UNCHANGED timeVarsFrame

NextTime == \E days \in (-3)..MaxDays : RenderDeadline(days)

SpecTime == InitSched /\ [][NextTime]_vars

\* the texts with a months figure from 1 to 11, and those with none
MonthsTexts ==
    {"1 month"} \cup {ToString(n) \o " months" : n \in 2..11}

WholeYears(y) == IF y = 1 THEN "1 year" ELSE ToString(y) \o " years"

YearsTexts ==
    UNION {{WholeYears(y)} \cup {WholeYears(y) \o " " \o ToString(n) \o "m" : n \in 1..11}
           : y \in 1..(MaxDays \div 365 + 1)}

(***************************************************************************)
(* C29.  The text for a day count is OVERDUE below zero, Today! at zero,   *)
(* and from thirty days on it shows a number of months from 1 to 11 or     *)
(* whole years only.                                                       *)
(***************************************************************************)
C29_TimeRemainingWellFormed ==
    timeRemaining # "" =>
        /\ daysUntil < 0 => timeRemaining = "OVERDUE"
        /\ daysUntil = 0 => timeRemaining = "Today!"
        /\ daysUntil >= 30 => timeRemaining \in MonthsTexts \cup YearsTexts

(***************************************************************************)
(* The Settings page: the persons of the household.                        *)
(***************************************************************************)
MaxAdds == 3

\* loadPersons() up to its await
loadPersons ==
    /\ stLoading' = TRUE
    /\ getPending' = getPending + 1

\* useEffect(() => { loadPersons() }, [])
MountSettings ==
    /\ ~stMounted
    /\ stMounted' = TRUE
    /\ loadPersons
    /\ UNCHANGED <<persons, stError, showAddForm, formName, stored, created, adds>>
    /\ UNCHANGED settingsVarsFrame

\* getPersons has resolved: setPersons(data), then finally
PersonsResolved ==
    /\ getPending > 0
    /\ getPending' = getPending - 1
    /\ persons' = stored
    /\ stLoading' = FALSE
    /\ UNCHANGED <<stMounted, stError, showAddForm, formName, stored, created, adds>>
    /\ UNCHANGED settingsVarsFrame

\* getPersons has rejected: setError, then finally
PersonsRejected ==
    /\ getPending > 0
    /\ getPending' = getPending - 1
    /\ stError' = Msg("Failed to fetch persons")
    /\ stLoading' = FALSE
    /\ UNCHANGED <<stMounted, persons, showAddForm, formName, stored, created, adds>>
    /\ UNCHANGED settingsVarsFrame

\* the button '+ Set Up Your Profile' / '+ Add Spouse/Partner'
OpenAddForm ==
    /\ stMounted /\ ~stLoading /\ ~showAddForm
    /\ showAddForm' = TRUE
    /\ UNCHANGED <<stMounted, persons, stLoading, stError, formName, stored,
                   getPending, created, adds>>
    /\ UNCHANGED settingsVarsFrame

\* onChange of the name input
EnterName(name) ==
    /\ stMounted /\ ~stLoading /\ showAddForm
    /\ name # formName
    /\ formName' = name
    /\ UNCHANGED <<stMounted, persons, stLoading, stError, showAddForm, stored,
                   getPending, created, adds>>
    /\ UNCHANGED settingsVarsFrame

\* handleAddPerson() up to its await
handleAddPerson ==
    /\ stMounted /\ ~stLoading /\ showAddForm
    /\ adds < MaxAdds
    /\ adds' = adds + 1
    /\ IF Trim(formName) = ""
       THEN UNCHANGED created
       ELSE created' = Append(created, [is_primary |-> (persons = 0),
                                        status |-> "pending", id |-> 0])
    /\ UNCHANGED <<stMounted, persons, stLoading, stError, showAddForm, formName,
                   stored, getPending>>
    /\ UNCHANGED settingsVarsFrame

\* createPerson of the k-th request has resolved: the person is stored,
\* the form is reset and closed, loadPersons()
CreateResolved(k) ==
    /\ created[k].status = "pending"
    /\ stored' = stored + 1
    /\ created' = [created EXCEPT ![k].status = "stored", ![k].id = stored + 1]
    /\ formName' = ""
    /\ showAddForm' = FALSE
    /\ loadPersons
    /\ UNCHANGED <<stMounted, persons, stError, adds>>
    /\ UNCHANGED settingsVarsFrame

\* createPerson of the k-th request has rejected: setError
CreateRejected(k) ==
    /\ created[k].status = "pending"
    /\ created' = [created EXCEPT ![k].status = "rejected"]
    /\ stError' = Msg("Failed to create person")
    /\ UNCHANGED <<stMounted, persons, stLoading, showAddForm, formName, stored,
                   getPending, adds>>
    /\ UNCHANGED settingsVarsFrame

NextSettings ==
    \/ MountSettings
    \/ PersonsResolved
    \/ PersonsRejected
    \/ OpenAddForm
    \/ \E name \in {"", " ", "Ann"} : EnterName(name)
    \/ handleAddPerson
    \/ \E k \in 1..Len(created) :
         \/ CreateResolved(k)
         \/ CreateRejected(k)

SpecSettings == InitSched /\ [][NextSettings]_vars

(***************************************************************************)
(* C30.  Of the createPerson requests that were not refused, at most one   *)
(* carries is_primary = true, and the person it stores is the first one.   *)
(***************************************************************************)
C30_OnePrimaryRequest ==
    LET primary == {k \in 1..Len(created) :
                      created[k].is_primary /\ created[k].status # "rejected"}
    IN  /\ Cardinality(primary) <= 1
        /\ \A k \in primary : created[k].status = "stored" => created[k].id = 1

====
